---- MODULE Spec2Model ----
(***************************************************************************)
(* Resilience layer of the OpenStrand SDK's LLM package.                   *)
(*                                                                         *)
(*   llm/retry.ts    calculateBackoff, isRetryableError, withRetry,        *)
(*                   withTimeout, CircuitBreaker                           *)
(*   llm/service.ts  LLMService (complete, ask, executeRequest,            *)
(*                   checkTokenBudget, getProvider)                        *)
(*   llm/provider.ts ProviderRegistry                                      *)
(*   llm/types.ts    LLMError                                              *)
(*                                                                         *)
(* Six specifications share the operators that model the code:             *)
(*   SpecClassify  isRetryableError applied to one error and one config    *)
(*   SpecBackoff   calculateBackoff applied to one attempt and one config  *)
(*   SpecRegistry  one ProviderRegistry under register and unregister      *)
(*   SpecRetry     one withRetry invocation around an arbitrary operation  *)
(*   SpecCB        one CircuitBreaker used by several callers              *)
(*   Spec          one LLMService used by several callers                  *)
(***************************************************************************)
EXTENDS Integers, Sequences, FiniteSets, TLC

VARIABLES
    cls,          \* SpecClassify: the error, the config and the verdict
    rt,           \* SpecRetry: the withRetry invocation
    rtConfig,     \* SpecRetry: its config and whether onRetry is supplied
    rtTrace,      \* SpecRetry: what each settled fn() call yielded, in order
    cb,           \* SpecCB: CircuitBreaker.state
    cbConfig,     \* SpecCB: CircuitBreaker.config
    cbCalls,      \* SpecCB: the execute() call of each caller
    cbClock,      \* SpecCB: Date.now()
    cbHist,       \* SpecCB: history of the breaker's use
    serviceConfig, \* Spec: LLMServiceConfig as the constructor stored it
    providers,    \* Spec: ProviderRegistry.providers (keys in insertion order)
    circuitBreakers, \* Spec: LLMService.circuitBreakers
    tokenBudget,  \* Spec: LLMService.tokenBudget
    clock,        \* Spec: Date.now()
    calls,        \* Spec: the complete()/ask() call of each caller
    last,         \* Spec: what the step just taken did to a call
    ledger,       \* Spec: the token usage after the last reset, plus the
                  \*       tokens of every execution that succeeded since;
                  \*       and the tokens used in the calendar month of the clock
    reg,          \* SpecRegistry: ProviderRegistry.providers and its history
    bo            \* SpecBackoff: one calculateBackoff call

clsVars == <<cls>>
rtVars == <<rt, rtConfig, rtTrace>>
cbVars == <<cb, cbConfig, cbCalls, cbClock, cbHist>>
svcVars == <<serviceConfig, providers, circuitBreakers, tokenBudget, clock, calls, last,
             ledger>>
regVars == <<reg>>
boVars == <<bo>>
vars == <<cls, rt, rtConfig, rtTrace, cb, cbConfig, cbCalls, cbClock, cbHist,
          serviceConfig, providers, circuitBreakers, tokenBudget, clock, calls, last,
          ledger, reg, bo>>

-----------------------------------------------------------------------------
(* Errors: llm/types.ts LLMError, plain Error objects, and thrown values    *)
(* that are no Error at all.                                                *)

\* statusCode?: number left undefined
NoStatus == -1

\* fragments an error text is built from; the text is the set of its fragments
Fragments ==
    {"timeout", "Timeout", "timed out", "ECONNRESET", "ENOTFOUND", "Network", "bad request"}

\* String.prototype.toLowerCase on one fragment
LowerFragment(f) ==
    CASE f = "Timeout" -> "timeout"
      [] f = "ECONNRESET" -> "econnreset"
      [] f = "ENOTFOUND" -> "enotfound"
      [] f = "Network" -> "network"
      [] OTHER -> f

\* message.toLowerCase()
ToLowerCase(text) ==
    {LowerFragment(f) : f \in text}

\* message.includes(word)
Includes(text, word) ==
    word \in text

NoCause == [class |-> "none"]

\* new LLMError(message, provider, statusCode, retryable, originalError)
LLMError(message, provider, statusCode, retryable, originalError) ==
    [class |-> "LLMError", message |-> message, count |-> 0, provider |-> provider,
     statusCode |-> statusCode, retryable |-> retryable, cause |-> originalError]

\* new Error(message)
PlainError(message) ==
    [class |-> "Error", message |-> message, count |-> 0, provider |-> "none",
     statusCode |-> NoStatus, retryable |-> FALSE, cause |-> NoCause]

\* a thrown value that is not an Error (a string, an object literal): it has
\* a text but no .message
NonError(text) ==
    [class |-> "NonError", message |-> text, count |-> 0, provider |-> "none",
     statusCode |-> NoStatus, retryable |-> FALSE, cause |-> NoCause]

\* error instanceof LLMError
IsLLMError(e) ==
    e.class = "LLMError"

\* error instanceof Error (LLMError extends Error)
IsError(e) ==
    e.class \in {"LLMError", "Error"}

\* the value thrown, without its cause chain (a cause is kept one level deep)
Flat(e) ==
    [class |-> e.class, message |-> e.message, count |-> e.count, provider |-> e.provider,
     statusCode |-> e.statusCode, retryable |-> e.retryable]

-----------------------------------------------------------------------------
(* llm/retry.ts *)

DefaultMaxRetries == 3

DEFAULT_RETRY_CONFIG ==
    [maxRetries |-> DefaultMaxRetries,
     retryableStatuses |-> {408, 429, 500, 502, 503, 504}]

\* Math.random() yields one of the RandomSteps values 0/RandomSteps, ...,
\* (RandomSteps - 1)/RandomSteps of [0, 1)
RandomSteps == 8

\* RetryConfig.jitter is counted in tenths; a delay is counted in units of
\* 1/BackoffScale ms, in which the arithmetic of calculateBackoff is exact
BackoffScale == 2 * 10 * RandomSteps

\* the backoff fields of DEFAULT_RETRY_CONFIG (jitter 0.1)
DEFAULT_BACKOFF ==
    [initialBackoffMs |-> 1000, maxBackoffMs |-> 60000, backoffMultiplier |-> 2,
     jitterTenths |-> 1]

RECURSIVE Pow(_, _)
\* Math.pow(base, exponent) for a natural exponent
Pow(base, exponent) ==
    IF exponent = 0 THEN 1 ELSE base * Pow(base, exponent - 1)

\* Math.min, Math.max
Min(a, b) == IF a <= b THEN a ELSE b
Max(a, b) == IF a >= b THEN a ELSE b

\* calculateBackoff whose jitter spans twice the range
CalculateBackoffWideJitter(attempt, config, random) ==
    LET exponentialDelay == config.initialBackoffMs * Pow(config.backoffMultiplier, attempt)
        cappedDelay == Min(exponentialDelay, config.maxBackoffMs)
    IN  Max(0, cappedDelay * BackoffScale
               + 2 * cappedDelay * config.jitterTenths * (2 * random - RandomSteps))

\* calculateBackoff(attempt, config) when Math.random() yields
\* random/RandomSteps; the result in units of 1/BackoffScale ms:
\*   jitterRange = cappedDelay * jitterTenths / 10
\*   jitter = random/RandomSteps * jitterRange - jitterRange / 2
\*          = cappedDelay * jitterTenths * (2 * random - RandomSteps) / BackoffScale
CalculateBackoff(attempt, config, random) ==
    LET exponentialDelay == config.initialBackoffMs * Pow(config.backoffMultiplier, attempt)
        cappedDelay == Min(exponentialDelay, config.maxBackoffMs)
    IN  Max(0, cappedDelay * BackoffScale
               + cappedDelay * config.jitterTenths * (2 * random - RandomSteps))

\* isRetryableError with the check of the retryable flag dropped
IsRetryableErrorIgnoringFlag(error, config) ==
    \/ /\ IsLLMError(error)
       /\ error.statusCode # NoStatus /\ error.statusCode # 0
       /\ error.statusCode \in config.retryableStatuses
    \/ /\ IsError(error)
       /\ \E w \in {"timeout", "econnreset", "enotfound", "network"} :
              Includes(ToLowerCase(error.message), w)

\* isRetryableError with the transport-wording fallback dropped
IsRetryableErrorStatusOnly(error, config) ==
    /\ IsLLMError(error)
    /\ error.retryable
    /\ error.statusCode # NoStatus /\ error.statusCode # 0
    /\ error.statusCode \in config.retryableStatuses

\* isRetryableError(error, config)
IsRetryableError(error, config) ==
    IF IsLLMError(error) /\ ~error.retryable
    THEN FALSE
    ELSE IF /\ IsLLMError(error)
            /\ error.statusCode # NoStatus /\ error.statusCode # 0   \* truthy
            /\ error.statusCode \in config.retryableStatuses
    THEN TRUE
    ELSE IF /\ IsError(error)
            /\ \/ Includes(ToLowerCase(error.message), "timeout")
               \/ Includes(ToLowerCase(error.message), "econnreset")
               \/ Includes(ToLowerCase(error.message), "enotfound")
               \/ Includes(ToLowerCase(error.message), "network")
    THEN TRUE
    ELSE FALSE

\* the value a resolved operation yields, as far as withRetry is concerned
NoError == [class |-> "none"]

\* lastError?.message inside the template literal: "undefined" for a thrown
\* value that has no .message
MessageOf(e) ==
    IF IsError(e) THEN e.message ELSE {"undefined"}

\* `Failed after ${config.maxRetries + 1} attempts: ${lastError?.message}`
\* thrown as new LLMError(..., 'openai', undefined, false, lastError)
ExhaustedError(config, lastError) ==
    [LLMError({"Failed after", "attempts"} \cup MessageOf(lastError),
              "openai", NoStatus, FALSE, Flat(lastError))
        EXCEPT !.count = config.maxRetries + 1]

\* withRetry: entry; the loop starts at attempt 0 and calls fn()
RetryBegin ==
    [status |-> "calling", attempt |-> 0, lastError |-> NoError, invocations |-> 1,
     onRetryLog |-> <<>>, sleeps |-> 0, thrown |-> NoError]

\* withRetry: `return await fn()` when fn resolves
RetryResolved(r) ==
    [r EXCEPT !.status = "returned"]

\* withRetry's catch block that keeps retrying after a non-retryable error
RetryRejectedAlwaysRetry(r, error, config, hasOnRetry) ==
    IF r.attempt = config.maxRetries
    THEN [r EXCEPT !.lastError = error, !.status = "thrown",
                   !.thrown = ExhaustedError(config, error)]
    ELSE [r EXCEPT !.lastError = error, !.status = "sleeping",
                   !.onRetryLog = IF hasOnRetry THEN Append(@, r.attempt + 1) ELSE @,
                   !.sleeps = @ + 1]

\* withRetry's catch block with the last-attempt test off by one (attempt
\* maxRetries - 1 treated as the last)
RetryRejectedOffByOne(r, error, config, hasOnRetry) ==
    IF r.attempt >= config.maxRetries - 1
    THEN [r EXCEPT !.lastError = error, !.status = "thrown",
                   !.thrown = ExhaustedError(config, error)]
    ELSE IF ~IsRetryableError(error, config)
    THEN [r EXCEPT !.lastError = error, !.status = "thrown", !.thrown = error]
    ELSE [r EXCEPT !.lastError = error, !.status = "sleeping",
                   !.onRetryLog = IF hasOnRetry THEN Append(@, r.attempt + 1) ELSE @,
                   !.sleeps = @ + 1]

\* withRetry: the catch block when fn rejects with `error`, up to the
\* `await sleep(delayMs)` or the throw
RetryRejected(r, error, config, hasOnRetry) ==
    IF r.attempt = config.maxRetries
    THEN \* break; throw new LLMError(`Failed after ...`)
         [r EXCEPT !.lastError = error, !.status = "thrown",
                   !.thrown = ExhaustedError(config, error)]
    ELSE IF ~IsRetryableError(error, config)
    THEN \* throw error
         [r EXCEPT !.lastError = error, !.status = "thrown", !.thrown = error]
    ELSE \* calculateBackoff; onRetry(attempt + 1, lastError); await sleep(delayMs)
         [r EXCEPT !.lastError = error, !.status = "sleeping",
                   !.onRetryLog = IF hasOnRetry THEN Append(@, r.attempt + 1) ELSE @,
                   !.sleeps = @ + 1]

\* withRetry: the sleep is over; attempt++ and the next fn() call
RetryWake(r) ==
    [r EXCEPT !.status = "calling", !.attempt = @ + 1, !.invocations = @ + 1]

-----------------------------------------------------------------------------
(* llm/retry.ts: CircuitBreaker *)

DefaultFailureThreshold == 5
DefaultResetTimeoutMs == 60000
DefaultHalfOpenMaxAttempts == 3

\* the constructor's default config
DefaultBreakerConfig ==
    [failureThreshold |-> DefaultFailureThreshold,
     resetTimeoutMs |-> DefaultResetTimeoutMs,
     halfOpenMaxAttempts |-> DefaultHalfOpenMaxAttempts]

\* the initial value of CircuitBreaker.state, and what reset() assigns
BreakerClosed ==
    [failureCount |-> 0, lastFailureTime |-> 0, state |-> "closed"]

\* checkState that moves to half-open with the failure count kept
CheckStateKeepsCount(b, now, config) ==
    IF b.state = "open" /\ now - b.lastFailureTime >= config.resetTimeoutMs
    THEN [b EXCEPT !.state = "half-open"]
    ELSE b

\* checkState that forgets the elapsed-time test
CheckStateNoTimer(b, now, config) ==
    IF b.state = "open"
    THEN [b EXCEPT !.state = "half-open", !.failureCount = 0]
    ELSE b

\* checkState that waits for more than resetTimeoutMs (> for >=)
CheckStateStrict(b, now, config) ==
    IF b.state = "open" /\ now - b.lastFailureTime > config.resetTimeoutMs
    THEN [b EXCEPT !.state = "half-open", !.failureCount = 0]
    ELSE b

\* checkState that never leaves open
CheckStateStuck(b, now, config) ==
    b

\* CircuitBreaker.checkState(), with now = Date.now()
CheckState(b, now, config) ==
    IF b.state = "open" /\ now - b.lastFailureTime >= config.resetTimeoutMs
    THEN [b EXCEPT !.state = "half-open", !.failureCount = 0]
    ELSE b

\* onSuccess that closes the breaker whatever its state
OnSuccessCloses(b) ==
    [b EXCEPT !.state = "closed", !.failureCount = 0]

\* onSuccess that closes the breaker but keeps the failure count
OnSuccessKeepsCount(b) ==
    [b EXCEPT !.state = IF @ = "half-open" THEN "closed" ELSE @]

\* CircuitBreaker.onSuccess()
OnSuccess(b) ==
    [b EXCEPT !.state = IF @ = "half-open" THEN "closed" ELSE @,
              !.failureCount = 0]

\* onFailure that re-opens a half-open breaker at the first failed probe
OnFailureReopens(b, now, config) ==
    [b EXCEPT !.failureCount = @ + 1,
              !.lastFailureTime = now,
              !.state = IF b.state = "half-open" \/ b.failureCount + 1 >= config.failureThreshold
                        THEN "open" ELSE @]

\* onFailure that counts the failure twice
OnFailureTwice(b, now, config) ==
    [b EXCEPT !.failureCount = @ + 2,
              !.lastFailureTime = now,
              !.state = IF b.failureCount + 2 >= config.failureThreshold THEN "open" ELSE @]

\* onFailure that opens one failure late (> for >=)
OnFailureLate(b, now, config) ==
    [b EXCEPT !.failureCount = @ + 1,
              !.lastFailureTime = now,
              !.state = IF b.failureCount + 1 > config.failureThreshold THEN "open" ELSE @]

\* CircuitBreaker.onFailure(), with now = Date.now()
OnFailure(b, now, config) ==
    [b EXCEPT !.failureCount = @ + 1,
              !.lastFailureTime = now,
              !.state = IF b.failureCount + 1 >= config.failureThreshold THEN "open" ELSE @]

\* reset that clears the failure count and leaves the state
BreakerResetCountOnly(b) ==
    [b EXCEPT !.failureCount = 0, !.lastFailureTime = 0]

\* CircuitBreaker.reset()
BreakerReset(b) ==
    BreakerClosed

\* execute() that stamps the time of a refusal on the breaker
BreakerCheckedStamps(b, now, config) ==
    IF CheckState(b, now, config).state = "open"
    THEN [b EXCEPT !.lastFailureTime = now]
    ELSE CheckState(b, now, config)

\* execute(): the breaker as checkState() leaves it
BreakerChecked(b, now, config) ==
    CheckState(b, now, config)

\* execute(): `this.state.state === 'open'` after checkState(): the call is
\* refused and fn is not called
BreakerRefuses(b, now, config) ==
    BreakerChecked(b, now, config).state = "open"

\* the error execute() throws when it refuses a call
CircuitOpenError ==
    LLMError({"Circuit breaker is open"}, "openai", 503, FALSE, NoCause)

-----------------------------------------------------------------------------
(* llm/retry.ts: withTimeout *)

\* a timer rejection that is not marked retryable
TimeoutErrorFatal ==
    LLMError({"Request to", "timed out"}, "openai", 408, FALSE, NoCause)

\* the rejection of withTimeout's timer:
\* new LLMError(errorMessage, 'openai', 408, true), with executeFn's message
\* `Request to ${provider.name} timed out after ${timeout}ms`
TimeoutError ==
    LLMError({"Request to", "timed out"}, "openai", 408, TRUE, NoCause)

-----------------------------------------------------------------------------
(* llm/provider.ts: ProviderRegistry.  The Map is the sequence of its keys   *)
(* in insertion order.                                                       *)

NoProvider == "none"

\* ProviderRegistry.get(name): the provider, or undefined
RegistryGet(registry, name) ==
    IF \E i \in 1..Len(registry) : registry[i] = name THEN name ELSE NoProvider

\* getDefault that prefers openai to openrouter
RegistryGetDefaultVendorFirst(registry) ==
    IF RegistryGet(registry, "openai") # NoProvider THEN "openai"
    ELSE IF RegistryGet(registry, "openrouter") # NoProvider THEN "openrouter"
    ELSE IF Len(registry) > 0 THEN registry[1]
    ELSE NoProvider

\* ProviderRegistry.getDefault()
RegistryGetDefault(registry) ==
    IF RegistryGet(registry, "openrouter") # NoProvider THEN "openrouter"
    ELSE IF RegistryGet(registry, "openai") # NoProvider THEN "openai"
    ELSE IF Len(registry) > 0 THEN registry[1]
    ELSE NoProvider

\* The Map with its values: the sequence of its <<key, value>> entries in
\* insertion order.  Map.prototype.set: a key that is present keeps its place
MapSet(map, key, value) ==
    IF \E i \in DOMAIN map : map[i][1] = key
    THEN [i \in DOMAIN map |-> IF map[i][1] = key THEN <<key, value>> ELSE map[i]]
    ELSE Append(map, <<key, value>>)

\* Map.prototype.delete
MapDelete(map, key) ==
    SelectSeq(map, LAMBDA entry : entry[1] # key)

\* Map.prototype.keys
MapKeys(map) ==
    [i \in DOMAIN map |-> map[i][1]]

\* no provider object (undefined)
NoInstance == 0

\* Map.prototype.get
MapGet(map, key) ==
    IF \E i \in DOMAIN map : map[i][1] = key
    THEN (CHOOSE entry \in {map[i] : i \in DOMAIN map} : entry[1] = key)[2]
    ELSE NoInstance

-----------------------------------------------------------------------------
(* llm/service.ts: LLMService *)

\* The service's times (Date.now(), resetsAt, lastFailureTime) are counted in
\* units of ClockUnitMs milliseconds, so that a year fits the integers of the
\* model checker.
ClockUnitMs == 1000

\* 24 * 60 * 60 * 1000 ms
Day == (24 * 60 * 60 * 1000) \div ClockUnitMs

\* Date.prototype.getMonth() of the time t, on a calendar of 30-day months
GetMonth(t) ==
    (t \div (30 * Day)) % 12

\* new CircuitBreaker(): the default config, resetTimeoutMs in clock units
ServiceBreakerConfig ==
    [DefaultBreakerConfig EXCEPT !.resetTimeoutMs = @ \div ClockUnitMs]

Resolved(p) == [ok |-> TRUE, provider |-> p, error |-> NoError]
Thrown(e) == [ok |-> FALSE, provider |-> NoProvider, error |-> e]

\* getProvider that falls back to the defaults for a name not registered
GetProviderFallsBack(registry, defaultProvider, provider) ==
    IF provider # NoProvider /\ RegistryGet(registry, provider) # NoProvider
    THEN Resolved(provider)
    ELSE IF defaultProvider # NoProvider /\ RegistryGet(registry, defaultProvider) # NoProvider
    THEN Resolved(defaultProvider)
    ELSE IF RegistryGetDefault(registry) = NoProvider
    THEN Thrown(LLMError({"No LLM providers registered"}, "openai", NoStatus, FALSE, NoCause))
    ELSE Resolved(RegistryGetDefault(registry))

\* LLMService.getProvider(provider?)
GetProvider(registry, defaultProvider, provider) ==
    IF provider # NoProvider
    THEN IF RegistryGet(registry, provider) = NoProvider
         THEN Thrown(LLMError({"Provider", "not registered"}, provider, NoStatus, FALSE, NoCause))
         ELSE Resolved(provider)
    ELSE IF defaultProvider # NoProvider /\ RegistryGet(registry, defaultProvider) # NoProvider
    THEN Resolved(defaultProvider)
    ELSE IF RegistryGetDefault(registry) = NoProvider
    THEN Thrown(LLMError({"No LLM providers registered"}, "openai", NoStatus, FALSE, NoCause))
    ELSE Resolved(RegistryGetDefault(registry))

\* tokenBudget left undefined in the config
NoBudget == [dailyLimit |-> 0, dailyUsage |-> 0, monthlyLimit |-> 0, monthlyUsage |-> 0,
             resetsAt |-> 0, configured |-> FALSE]

\* the reset that clears the monthly usage with the daily one
BudgetAfterResetBoth(budget, now) ==
    IF now > budget.resetsAt
    THEN [budget EXCEPT !.dailyUsage = 0, !.monthlyUsage = 0, !.resetsAt = now + Day]
    ELSE budget

\* the reset that happens from the instant resetsAt on
BudgetAfterResetEarly(budget, now) ==
    IF now >= budget.resetsAt
    THEN [budget EXCEPT !.dailyUsage = 0,
                        !.monthlyUsage =
                            IF GetMonth(now) # GetMonth(budget.resetsAt) THEN 0 ELSE @,
                        !.resetsAt = now + Day]
    ELSE budget

\* checkTokenBudget: the reset of a budget whose resetsAt has passed
BudgetAfterReset(budget, now) ==
    IF now > budget.resetsAt
    THEN [budget EXCEPT !.dailyUsage = 0,
                        !.monthlyUsage =
                            IF GetMonth(now) # GetMonth(budget.resetsAt) THEN 0 ELSE @,
                        !.resetsAt = now + Day]
    ELSE budget

\* checkTokenBudget with the limits compared by > instead of >=
BudgetExhaustedStrict(budget) ==
    \/ budget.dailyUsage > budget.dailyLimit
    \/ budget.monthlyUsage > budget.monthlyLimit

\* checkTokenBudget: the two tests that throw
BudgetExhausted(budget) ==
    \/ budget.dailyUsage >= budget.dailyLimit
    \/ budget.monthlyUsage >= budget.monthlyLimit

\* checkTokenBudget: the error thrown, the daily test coming first
BudgetError(budget, defaultProvider) ==
    LLMError(IF budget.dailyUsage >= budget.dailyLimit
             THEN {"Daily token budget exceeded"}
             ELSE {"Monthly token budget exceeded"},
             IF defaultProvider # NoProvider THEN defaultProvider ELSE "openai",
             429, FALSE, NoCause)

\* the budget update that counts the tokens twice
BudgetChargedTwice(budget, totalTokens) ==
    [budget EXCEPT !.dailyUsage = @ + 2 * totalTokens,
                   !.monthlyUsage = @ + 2 * totalTokens]

\* the budget update that loses the monthly count
BudgetChargedDailyOnly(budget, totalTokens) ==
    [budget EXCEPT !.dailyUsage = @ + totalTokens]

\* executeRequest: tokenBudget.dailyUsage += ..., tokenBudget.monthlyUsage += ...
BudgetCharged(budget, totalTokens) ==
    [budget EXCEPT !.dailyUsage = @ + totalTokens, !.monthlyUsage = @ + totalTokens]

\* request.inputSchema.parse(request.input) throwing a ZodError (an Error
\* that is no LLMError)
InputValidationError ==
    PlainError({"invalid input"})

\* ask's error built as retryable
OutputParseErrorRetryable(provider, cause) ==
    LLMError({"Failed to parse LLM output"} \cup MessageOf(cause), provider, NoStatus, TRUE,
             Flat(cause))

\* ask: new LLMError(`Failed to parse LLM output: ...`, selectedProvider.name,
\* undefined, false, error)
OutputParseError(provider, cause) ==
    LLMError({"Failed to parse LLM output"} \cup MessageOf(cause), provider, NoStatus, FALSE,
             Flat(cause))

\* circuitBreakers.get(provider) when the map has no entry
NoBreaker == [failureCount |-> 0, lastFailureTime |-> 0, state |-> "unknown"]

\* LLMResponse.costUsd left undefined
NoCost == -1

\* no LLMResponse
NoResponse == [content |-> "none", totalTokens |-> 0, costUsd |-> NoCost]

\* ask that runs the request without looking at the input validation
EntryErrorUnvalidated(kind, selected, inputValid) ==
    IF ~selected.ok THEN selected.error ELSE NoError

\* complete/ask: what is thrown before executeRequest is reached, if anything:
\* getProvider's error, or for ask the input schema's error
EntryError(kind, selected, inputValid) ==
    IF ~selected.ok THEN selected.error
    ELSE IF kind = "ask" /\ ~inputValid THEN InputValidationError
    ELSE NoError

\* LLMRequestOptions.json left undefined; "on" is true, "off" is false
JsonUnset == "unset"

\* ask that sets json: true after the caller's options
RequestJsonForced(kind, optionsJson) ==
    IF kind = "ask" THEN "on" ELSE optionsJson

\* the json flag of the request options built by complete
\* ({ input, model, ...options }) and by ask
\* ({ input, systemPrompt, model, json: true, ...request.options })
RequestJson(kind, optionsJson) ==
    IF kind = "ask" /\ optionsJson = JsonUnset THEN "on" ELSE optionsJson

\* getCircuitBreakerState that knows a breaker only once it has left closed
GetCircuitBreakerStateTripped(breakers, provider) ==
    IF breakers[provider] = NoBreaker \/ breakers[provider].state = "closed"
    THEN "unknown" ELSE breakers[provider].state

\* getCircuitBreakerState(provider):
\* this.circuitBreakers.get(provider)?.getState() || 'unknown'
GetCircuitBreakerState(breakers, provider) ==
    IF breakers[provider] = NoBreaker THEN "unknown" ELSE breakers[provider].state

\* executeRequest: withRetry is given an onRetry callback only in the branch
\* that also goes through the circuit breaker
OnRetrySupplied(cfg) ==
    cfg.enableCircuitBreaker /\ cfg.enableRetry

\* config.onCost / config.onRequest left undefined; a callback that is
\* supplied either returns or throws
NoCallback == "none"

\* what a throwing onCost or onRequest callback throws
CallbackError ==
    PlainError({"callback failed"})

\* `response.costUsd && this.onCost`
CostReported(response, cfg) ==
    response.costUsd # NoCost /\ response.costUsd # 0 /\ cfg.onCost # NoCallback

\* executeRequest after the execution: the onCost and onRequest calls made, in
\* order and with their arguments (the model name left out), and what they
\* throw out of executeRequest, if anything
Telemetry(response, provider, cfg) ==
    LET cost == CostReported(response, cfg)
        costThrows == cost /\ cfg.onCost = "throws"
        request == ~costThrows /\ cfg.onRequest # NoCallback
    IN  [log |-> (IF cost THEN <<<<"onCost", response.costUsd, provider>>>> ELSE <<>>)
                 \o (IF request THEN <<<<"onRequest", provider>>>> ELSE <<>>),
         error |-> IF costThrows \/ (request /\ cfg.onRequest = "throws")
                   THEN CallbackError ELSE NoError]

\* complete that returns what ask returns
ReturnedParsed(kind, response) ==
    [response EXCEPT !.content = "parsed"]

\* what the call returns: complete the response of executeRequest, ask
\* { ...response, content: validatedOutput }
Returned(kind, response) ==
    IF kind = "ask" THEN [response EXCEPT !.content = "parsed"] ELSE response

\* ask: JSON.parse(response.content) and outputSchema.parse succeed
OutputParses(response) ==
    response.content = "json"

\* ask: what JSON.parse (a SyntaxError) or outputSchema.parse (a ZodError)
\* throws on a content that does not parse
OutputFailure(response) ==
    IF response.content = "text"
    THEN PlainError({"Unexpected token"})
    ELSE PlainError({"invalid output"})

-----------------------------------------------------------------------------
(* SpecClassify: isRetryableError on every error and config of the bounded   *)
(* input space.                                                              *)

ClsTexts ==
    {{}} \cup {{f} : f \in Fragments}

ClsStatusCodes ==
    {NoStatus, 0, 400, 408, 503}

ClsErrors ==
    {LLMError(m, "openai", sc, r, NoCause) : m \in ClsTexts, sc \in ClsStatusCodes, r \in BOOLEAN}
    \cup {PlainError(m) : m \in ClsTexts}
    \cup {NonError(m) : m \in ClsTexts}

ClsConfigs ==
    {[maxRetries |-> DefaultMaxRetries, retryableStatuses |-> ss] :
        ss \in {DEFAULT_RETRY_CONFIG.retryableStatuses, {}, {0, 503}, {400, 408}}}

ClsUnused == [error |-> NonError({}), config |-> DEFAULT_RETRY_CONFIG,
              done |-> FALSE, verdict |-> FALSE]

RtIdle == [status |-> "idle", attempt |-> 0, lastError |-> NoError, invocations |-> 0,
           onRetryLog |-> <<>>, sleeps |-> 0, thrown |-> NoError]

RtUnused ==
    /\ rt = RtIdle
    /\ rtConfig = [maxRetries |-> 0, retryableStatuses |-> {}, hasOnRetry |-> FALSE]
    /\ rtTrace = <<>>

CbIdle == [status |-> "idle", outcome |-> "none", error |-> NoError, invoked |-> 0]

CbHistInit == [streak |-> 0, fresh |-> TRUE, overlap |-> FALSE, probes |-> 0,
               last |-> <<"new", "closed">>]

CbUnused ==
    /\ cb = BreakerClosed
    /\ cbConfig = DefaultBreakerConfig
    /\ cbCalls = <<>>
    /\ cbClock = 0
    /\ cbHist = CbHistInit

\* a caller with no call in progress
SvcIdle ==
    [status |-> "idle", kind |-> "none", provider |-> NoProvider, inputValid |-> TRUE,
     retry |-> RtIdle, gens |-> 0, clean |-> TRUE,
     error |-> NoError, response |-> NoResponse,
     abandoned |-> 0, timers |-> 0]

\* the step just taken neither began nor ended a call
SvcNoLast ==
    [entered |-> FALSE, kind |-> "none", provider |-> NoProvider, inputValid |-> TRUE,
     outcome |-> "none", error |-> NoError, response |-> NoResponse, gens |-> 0, retries |-> <<>>,
     clean |-> TRUE, log |-> <<>>, abandoned |-> 0,
     asked |-> NoProvider, json |-> JsonUnset, wasOpen |-> {}]

RegUnused ==
    reg = [map |-> <<>>, stamp |-> <<>>, current |-> <<>>, ops |-> 0]

BoUnused ==
    bo = [config |-> DEFAULT_BACKOFF, attempt |-> 0, random |-> 0, delay |-> -1]

SvcUnused ==
    /\ last = SvcNoLast
    /\ ledger = [daily |-> 0, monthly |-> 0, month |-> 0]
    /\ serviceConfig = [enableRetry |-> TRUE, enableCircuitBreaker |-> TRUE,
                        retryConfig |-> DEFAULT_RETRY_CONFIG, defaultProvider |-> NoProvider,
                        onCost |-> NoCallback, onRequest |-> NoCallback]
    /\ providers = <<>>
    /\ circuitBreakers = <<>>
    /\ tokenBudget = NoBudget
    /\ clock = 0
    /\ calls = <<>>

ClsInit ==
    /\ SvcUnused
    /\ RegUnused
    /\ BoUnused
    /\ cls \in [error : ClsErrors, config : ClsConfigs, done : {FALSE}, verdict : {FALSE}]
    /\ RtUnused
    /\ CbUnused

Classify ==
    /\ ~cls.done
    /\ cls' = [cls EXCEPT !.done = TRUE,
                          !.verdict = IsRetryableError(cls.error, cls.config)]
    /\ UNCHANGED <<rtVars, cbVars, svcVars, regVars, boVars>>

ClsNext ==
    Classify

SpecClassify == ClsInit /\ [][ClsNext]_vars

\* the error text carries transport wording (any letter case)
HasTransportWording(e) ==
    ToLowerCase(e.message) \cap {"timeout", "econnreset", "enotfound", "network"} # {}

\* C10 as stated: retryable iff (a) a resilience error marked retryable whose
\* status code is in retryableStatuses, or (b) the error text has transport
\* wording, (b) sufficing whatever the other fields are.  (a) is read with a
\* status code that is present and non-zero, so that only (b) can refute it.
C10_AsStated ==
    cls.done =>
        (cls.verdict <=>
            \/ /\ IsLLMError(cls.error) /\ cls.error.retryable
               /\ cls.error.statusCode \notin {NoStatus, 0}
               /\ cls.error.statusCode \in cls.config.retryableStatuses
            \/ HasTransportWording(cls.error))

\* C10 amended: an error is classified retryable iff it is not a resilience
\* error marked non-retryable, and either (a) it is a resilience error marked
\* retryable whose non-zero status code is in retryableStatuses, or (b) it is
\* an Error object whose lowercased message contains timeout, econnreset,
\* enotfound or network.
C10_Classification ==
    cls.done =>
        (cls.verdict <=>
            /\ ~(IsLLMError(cls.error) /\ ~cls.error.retryable)
            /\ \/ /\ IsLLMError(cls.error) /\ cls.error.retryable
                  /\ cls.error.statusCode \notin {NoStatus, 0}
                  /\ cls.error.statusCode \in cls.config.retryableStatuses
               \/ IsError(cls.error) /\ HasTransportWording(cls.error))

\* a resilience error marked non-retryable whose text says "timeout" has been
\* classified, and is not retryable
C10_Witness ==
    /\ cls.done
    /\ IsLLMError(cls.error) /\ ~cls.error.retryable
    /\ HasTransportWording(cls.error)
    /\ ~cls.verdict

-----------------------------------------------------------------------------
(* SpecRetry: one withRetry(fn, config, onRetry?) invocation.  fn is any     *)
(* operation: each call of it resolves, or rejects with one of RtErrors.     *)

\* largest maxRetries of the configurations tried
RtMaxRetries == 3

RtErrors ==
    {LLMError({"bad request"}, "anthropic", 503, TRUE, NoCause),
     LLMError({"bad request"}, "anthropic", 400, FALSE, NoCause),
     PlainError({"Network"}),
     PlainError({"bad request"}),
     NonError({"timeout"})}

RtOk == [class |-> "ok"]

RtInit ==
    /\ rt = RtIdle
    /\ rtConfig \in [maxRetries : 0..RtMaxRetries,
                     retryableStatuses : {DEFAULT_RETRY_CONFIG.retryableStatuses, {429}},
                     hasOnRetry : BOOLEAN]
    /\ rtTrace = <<>>
    /\ cls = ClsUnused
    /\ CbUnused
    /\ SvcUnused
    /\ RegUnused
    /\ BoUnused

\* withRetry(fn, config, onRetry) is called
RtCall ==
    /\ rt.status = "idle"
    /\ rt' = RetryBegin
    /\ UNCHANGED <<cls, rtConfig, rtTrace, cbVars, svcVars, regVars, boVars>>

\* the pending fn() resolves
RtFnResolves ==
    /\ rt.status = "calling"
    /\ rt' = RetryResolved(rt)
    /\ rtTrace' = Append(rtTrace, RtOk)
    /\ UNCHANGED <<cls, rtConfig, cbVars, svcVars, regVars, boVars>>

\* the pending fn() rejects
RtFnRejects ==
    /\ rt.status = "calling"
    /\ \E e \in RtErrors :
        /\ rt' = RetryRejected(rt, e, rtConfig, rtConfig.hasOnRetry)
        /\ rtTrace' = Append(rtTrace, e)
    /\ UNCHANGED <<cls, rtConfig, cbVars, svcVars, regVars, boVars>>

\* the backoff sleep ends
RtSleepDone ==
    /\ rt.status = "sleeping"
    /\ rt' = RetryWake(rt)
    /\ UNCHANGED <<cls, rtConfig, rtTrace, cbVars, svcVars, regVars, boVars>>

RtNext ==
    \/ RtCall
    \/ RtFnResolves
    \/ RtFnRejects
    \/ RtSleepDone

SpecRetry == RtInit /\ [][RtNext]_vars

RtSettled == rt.status \in {"returned", "thrown"}

\* every fn() call settled so far rejected with an error the executor retries
RtAllRetryable ==
    \A i \in 1..Len(rtTrace) :
        rtTrace[i] # RtOk /\ IsRetryableError(rtTrace[i], rtConfig)

\* C8: withRetry calls the operation at most maxRetries+1 times and never again
\* after the first success (a success is the last settled call and ends the
\* invocation); when every attempt fails with a retryable error, it throws a
\* non-retryable LLMError whose cause is the last failure and whose message
\* states maxRetries+1 attempts.
C8_BoundedAttempts ==
    /\ rt.invocations <= rtConfig.maxRetries + 1
    /\ \A i \in 1..Len(rtTrace) :
           rtTrace[i] = RtOk =>
               i = Len(rtTrace) /\ rt.status = "returned" /\ rt.invocations = i
    /\ (RtSettled /\ RtAllRetryable) =>
           /\ rt.status = "thrown"
           /\ rt.invocations = rtConfig.maxRetries + 1
           /\ IsLLMError(rt.thrown) /\ ~rt.thrown.retryable
           /\ rt.thrown.cause = Flat(rtTrace[Len(rtTrace)])
           /\ rt.thrown.count = rtConfig.maxRetries + 1
           /\ "Failed after" \in rt.thrown.message

\* withRetry ran out of attempts after at least one retry, every failure retryable
C8_Witness ==
    /\ rt.status = "thrown"
    /\ RtAllRetryable
    /\ rtConfig.maxRetries >= 2
    /\ Len(rtTrace) = rtConfig.maxRetries + 1

\* C9: when an attempt that is not the last allowed one fails with a
\* non-retryable error, withRetry throws that same error at once: no sleep,
\* no onRetry call for it, no further call of the operation.
C9_FatalErrorSurfaces ==
    [][/\ (/\ rt.status = "calling"
           /\ Len(rtTrace') = Len(rtTrace) + 1
           /\ rtTrace'[Len(rtTrace')] # RtOk
           /\ rt.attempt < rtConfig.maxRetries
           /\ ~IsRetryableError(rtTrace'[Len(rtTrace')], rtConfig))
          => (/\ rt'.status = "thrown"
              /\ rt'.thrown = rtTrace'[Len(rtTrace')]
              /\ rt'.sleeps = rt.sleeps
              /\ rt'.onRetryLog = rt.onRetryLog
              /\ rt'.invocations = rt.invocations)
       /\ rt.status = "thrown" => rt' = rt]_vars

\* a non-retryable error on an attempt after a retry, before the last one,
\* has been thrown
C9_Witness ==
    /\ rt.status = "thrown"
    /\ Len(rtTrace) >= 2
    /\ Len(rtTrace) <= rtConfig.maxRetries
    /\ ~IsRetryableError(rtTrace[Len(rtTrace)], rtConfig)
    /\ rt.thrown = rtTrace[Len(rtTrace)]

-----------------------------------------------------------------------------
(* SpecCB: one CircuitBreaker whose execute(fn) is called by several callers *)
(* on one event loop.  fn is any operation; it resolves or rejects some time *)
(* after execute() called it.  reset() may be called at any moment.          *)

\* number of callers that may have an execute() call in flight at once
CbNumCallers == 2
\* largest failureThreshold tried besides the default
CbMaxThreshold == 3
\* the clock advances in steps of CbTickMs, CbMaxTicks times at most
CbTickMs == 30000
CbMaxTicks == 5

CbCallers == 1..CbNumCallers

\* the error a failing fn rejects with
CbFnError == PlainError({"bad request"})

CbRunning == {c \in CbCallers : cbCalls[c].status = "running"}

CbInit ==
    /\ cb = BreakerClosed
    /\ cbConfig \in [failureThreshold : (1..CbMaxThreshold) \cup {DefaultFailureThreshold},
                     resetTimeoutMs : {DefaultResetTimeoutMs},
                     halfOpenMaxAttempts : {DefaultHalfOpenMaxAttempts}]
    /\ cbCalls = [c \in CbCallers |-> CbIdle]
    /\ cbClock = 0
    /\ cbHist = CbHistInit
    /\ cls = ClsUnused
    /\ RtUnused
    /\ SvcUnused
    /\ RegUnused
    /\ BoUnused

CbCap == cbConfig.failureThreshold + CbNumCallers

\* execute(fn) is called by c: checkState(), then either the refusal or fn()
CbExecute(c) ==
    /\ cbCalls[c].status = "idle"
    /\ cb' = BreakerChecked(cb, cbClock, cbConfig)
    /\ IF BreakerRefuses(cb, cbClock, cbConfig)
       THEN /\ cbCalls' = [cbCalls EXCEPT ![c] =
                   [status |-> "idle", outcome |-> "refused",
                    error |-> CircuitOpenError, invoked |-> 0]]
            /\ cbHist' = [cbHist EXCEPT !.last = <<"refused", cb.state>>]
       ELSE /\ cbCalls' = [cbCalls EXCEPT ![c] =
                   [status |-> "running", outcome |-> "none",
                    error |-> NoError, invoked |-> 1]]
            /\ cbHist' = [cbHist EXCEPT
                   !.fresh = @ /\ cb'.state = "closed",
                   !.overlap = @ \/ CbRunning # {},
                   !.probes = IF cb'.state # "half-open" THEN 0
                              ELSE IF cb.state = "half-open" THEN @ + 1 ELSE 1,
                   !.last = <<"admitted", cb.state>>]
    /\ UNCHANGED <<cbConfig, cbClock, clsVars, rtVars, svcVars, regVars, boVars>>

\* c's fn() resolves: onSuccess(), and execute() returns the result
CbFnResolves(c) ==
    /\ cbCalls[c].status = "running"
    /\ cb' = OnSuccess(cb)
    /\ cbCalls' = [cbCalls EXCEPT ![c].status = "idle", ![c].outcome = "resolved"]
    /\ cbHist' = [cbHist EXCEPT
           !.streak = 0,
           !.fresh = @ \/ cb'.state = "closed",
           !.probes = IF cb'.state = "half-open" THEN @ ELSE 0,
           !.last = <<"success", cb.state>>]
    /\ UNCHANGED <<cbConfig, cbClock, clsVars, rtVars, svcVars, regVars, boVars>>

\* c's fn() rejects: onFailure(), and execute() rethrows the error
CbFnRejects(c) ==
    /\ cbCalls[c].status = "running"
    /\ cb' = OnFailure(cb, cbClock, cbConfig)
    /\ cbCalls' = [cbCalls EXCEPT ![c].status = "idle", ![c].outcome = "rejected",
                                  ![c].error = CbFnError]
    /\ cbHist' = [cbHist EXCEPT
           !.streak = IF @ < CbCap THEN @ + 1 ELSE @,
           !.probes = IF cb'.state = "half-open" THEN @ ELSE 0,
           !.last = <<"failure", cb.state>>]
    /\ UNCHANGED <<cbConfig, cbClock, clsVars, rtVars, svcVars, regVars, boVars>>

\* reset() is called
CbReset ==
    /\ cb' = BreakerReset(cb)
    /\ cbHist' = [cbHist EXCEPT !.streak = 0, !.fresh = TRUE, !.probes = 0,
                                !.last = <<"reset", cb.state>>]
    /\ UNCHANGED <<cbConfig, cbCalls, cbClock, clsVars, rtVars, svcVars, regVars, boVars>>

\* time passes
CbTick ==
    /\ cbClock < CbMaxTicks * CbTickMs
    /\ cbClock' = cbClock + CbTickMs
    /\ UNCHANGED <<cb, cbConfig, cbCalls, cbHist, clsVars, rtVars, svcVars, regVars, boVars>>

CbNext ==
    \/ \E c \in CbCallers : CbExecute(c)
    \/ \E c \in CbCallers : CbFnResolves(c)
    \/ \E c \in CbCallers : CbFnRejects(c)
    \/ CbReset
    \/ CbTick

SpecCB == CbInit /\ [][CbNext]_vars

\* c called execute() in this step
CbCalled(c) ==
    /\ cbCalls[c].status = "idle"
    /\ cbCalls'[c] # cbCalls[c]

\* c's fn() resolved in this step
CbResolved(c) ==
    /\ cbCalls[c].status = "running"
    /\ cbCalls'[c].outcome = "resolved"

\* C1: a breaker with failureThreshold N that starts closed with failureCount 0
\* and is used by sequential execute calls is open exactly when N consecutive
\* calls have failed: until then it is closed and failureCount is the number of
\* failures since the last success (0 after a success).
C1_OpensOnNthFailure ==
    (~cbHist.overlap /\ cbHist.fresh) =>
        /\ cb.state = "open" <=> cbHist.streak >= cbConfig.failureThreshold
        /\ cb.state # "open" => cb.state = "closed" /\ cb.failureCount = cbHist.streak

\* sequential calls on the default breaker: a success after failures, then
\* four failures leave it closed ...
C1_WitnessStillClosed ==
    /\ ~cbHist.overlap /\ cbHist.fresh
    /\ cbConfig.failureThreshold = DefaultFailureThreshold
    /\ cbHist.streak = DefaultFailureThreshold - 1
    /\ cbHist.last = <<"failure", "closed">>
    /\ cb.state = "closed"

\* ... and the fifth consecutive failure has opened it
C1_Witness ==
    /\ ~cbHist.overlap /\ cbHist.fresh
    /\ cbConfig.failureThreshold = DefaultFailureThreshold
    /\ cbHist.streak = DefaultFailureThreshold
    /\ cbHist.last = <<"failure", "closed">>
    /\ cb.state = "open"

\* C2: while the breaker is open and less than resetTimeoutMs has passed since
\* the last recorded failure, an execute call is refused with the non-retryable
\* circuit-open LLMError and does not call the wrapped operation; the breaker
\* stays as it is.
C2_OpenRefuses ==
    [][\A c \in CbCallers :
        (/\ CbCalled(c)
         /\ cb.state = "open"
         /\ cbClock - cb.lastFailureTime < cbConfig.resetTimeoutMs)
        => (/\ cbCalls'[c].status = "idle"
            /\ cbCalls'[c].outcome = "refused"
            /\ cbCalls'[c].invoked = 0
            /\ IsLLMError(cbCalls'[c].error)
            /\ ~cbCalls'[c].error.retryable
            /\ cbCalls'[c].error.statusCode = 503
            /\ cb' = cb)]_vars

\* a call has been refused some time after the breaker opened, before the
\* reset timeout
C2_Witness ==
    /\ cbHist.last = <<"refused", "open">>
    /\ cb.state = "open"
    /\ cbClock > cb.lastFailureTime
    /\ \E c \in CbCallers : cbCalls[c].outcome = "refused" /\ cbCalls[c].invoked = 0

\* C3 as stated: while the breaker is half-open exactly one call is passed to
\* the wrapped operation; no other call is passed through while it is
\* half-open.
C3_AsStated ==
    cb.state = "half-open" => cbHist.probes <= 1

\* C3 amended: once resetTimeoutMs has elapsed on an open breaker, the next
\* execute call moves it to half-open and is passed to the wrapped operation;
\* and every execute call that arrives while the breaker is half-open is passed
\* to the wrapped operation too: the probes are not limited to one.
C3_HalfOpenAdmitsAll ==
    [][\A c \in CbCallers :
        (/\ CbCalled(c)
         /\ \/ cb.state = "half-open"
            \/ /\ cb.state = "open"
               /\ cbClock - cb.lastFailureTime >= cbConfig.resetTimeoutMs)
        => (/\ cbCalls'[c].status = "running"
            /\ cbCalls'[c].invoked = 1
            /\ cb'.state = "half-open")]_vars

\* two probes are in flight on a half-open breaker
C3_Witness ==
    /\ cb.state = "half-open"
    /\ cbHist.probes >= 2
    /\ Cardinality(CbRunning) >= 2

\* C4: a success while the breaker is half-open closes it and sets failureCount
\* to 0; a success while it is closed leaves it closed and sets failureCount
\* to 0.
C4_SuccessCloses ==
    [][\A c \in CbCallers :
        (CbResolved(c) /\ cb.state \in {"half-open", "closed"})
        => (cb'.state = "closed" /\ cb'.failureCount = 0)]_vars

\* a probe succeeded on a half-open breaker that had counted a failure
C4_Witness ==
    /\ cbHist.last = <<"success", "half-open">>
    /\ cb.state = "closed"
    /\ cb.failureCount = 0
    /\ cb.lastFailureTime > DefaultResetTimeoutMs

-----------------------------------------------------------------------------
(* Spec: one LLMService used by several callers on one event loop.  Each     *)
(* action is one run-to-completion stretch of a complete()/ask() call: from  *)
(* the call to the first provider.generate(), from the settling of an        *)
(* attempt to the backoff sleep, and so on.  A caller whose call has ended   *)
(* is idle again; `last` tells what the step just taken did to a call: began *)
(* it (entered), and ended it with which outcome after which history.        *)
(* withTimeout cancels neither the loser of its race: a call counts the      *)
(* provider.generate() calls its timeouts left in flight (abandoned) and the *)
(* timers its settled attempts left running (timers), until it ends: no      *)
(* handler of an ended call is left on them.                                 *)

\* number of callers that may have a complete()/ask() call in flight at once
SvcNumCallers == 2
\* the clock advances in steps of SvcTickUnits clock units, SvcMaxTicks times at most
SvcTickUnits == 60
SvcMaxTicks == 1
\* usage.totalTokens of every response
SvcTokens == 6

SvcProviders == {"openai", "anthropic"}

\* the service is constructed one tick before a month begins
SvcStartTime == 30 * Day - SvcTickUnits

SvcConfig(enableRetry, enableCircuitBreaker, retryConfig, defaultProvider) ==
    [enableRetry |-> enableRetry, enableCircuitBreaker |-> enableCircuitBreaker,
     retryConfig |-> retryConfig, defaultProvider |-> defaultProvider,
     onCost |-> "returns", onRequest |-> "returns"]

\* the config with other onCost and onRequest callbacks
WithCallbacks(config, onCost, onRequest) ==
    [config EXCEPT !.onCost = onCost, !.onRequest = onRequest]

SvcRegistries ==
    {<<>>, <<"anthropic">>, <<"anthropic", "openai">>}

SvcBudgets ==
    {[dailyLimit |-> 2 * SvcTokens, dailyUsage |-> du,
      monthlyLimit |-> 3 * SvcTokens, monthlyUsage |-> mu,
      resetsAt |-> ra, configured |-> TRUE] :
        du \in {0, 2 * SvcTokens}, mu \in {SvcTokens, 3 * SvcTokens},
        ra \in {SvcStartTime - Day, SvcStartTime, SvcStartTime + Day}}

\* a budget with nothing used today
SvcFreshBudget ==
    [dailyLimit |-> 2 * SvcTokens, dailyUsage |-> 0,
     monthlyLimit |-> 3 * SvcTokens, monthlyUsage |-> SvcTokens,
     resetsAt |-> SvcStartTime + Day, configured |-> TRUE]

\* a budget that the tokens of one more response use up
SvcLastCallBudget ==
    [dailyLimit |-> 2 * SvcTokens, dailyUsage |-> SvcTokens,
     monthlyLimit |-> 3 * SvcTokens, monthlyUsage |-> SvcTokens,
     resetsAt |-> SvcStartTime + Day, configured |-> TRUE]

\* a budget with the day's tokens used up, the day ending at the start time
SvcSpentBudget ==
    [dailyLimit |-> 2 * SvcTokens, dailyUsage |-> 2 * SvcTokens,
     monthlyLimit |-> 3 * SvcTokens, monthlyUsage |-> SvcTokens,
     resetsAt |-> SvcStartTime, configured |-> TRUE]

SvcScenario(config, registry, budget, callers) ==
    [config |-> config, providers |-> registry, budget |-> budget, callers |-> callers]

\* the services constructed, and the number of their concurrent callers:
\* retry inside the breaker; the breaker alone, shared by concurrent callers;
\* retry alone, with every budget, and shared by concurrent callers whose
\* budget one response uses up; neither,
\* with every registry and default provider, and with every budget and
\* concurrent callers; retry with retryableStatuses overridden; callbacks
\* that throw, and none
SvcScenarios ==
    {SvcScenario(SvcConfig(TRUE, TRUE, DEFAULT_RETRY_CONFIG, NoProvider),
                 <<"openai">>, NoBudget, 1),
     SvcScenario(SvcConfig(FALSE, TRUE, DEFAULT_RETRY_CONFIG, NoProvider),
                 <<"openai">>, NoBudget, SvcNumCallers),
     SvcScenario(SvcConfig(TRUE, FALSE, [DEFAULT_RETRY_CONFIG EXCEPT !.maxRetries = 1],
                           NoProvider),
                 <<"openai">>, SvcLastCallBudget, SvcNumCallers)}
    \cup {SvcScenario(SvcConfig(TRUE, FALSE, DEFAULT_RETRY_CONFIG, NoProvider),
                      <<"anthropic", "openai">>, budget, 1) :
            budget \in SvcBudgets \cup {NoBudget}}
    \cup {SvcScenario(SvcConfig(FALSE, FALSE, DEFAULT_RETRY_CONFIG, defaultProvider),
                      registry, NoBudget, 1) :
            defaultProvider \in {NoProvider, "openai", "anthropic"},
            registry \in SvcRegistries}
    \cup {SvcScenario(SvcConfig(TRUE, FALSE,
                                [DEFAULT_RETRY_CONFIG EXCEPT !.retryableStatuses = {429, 503}],
                                NoProvider),
                      <<"openai">>, NoBudget, 1)}
    \cup {SvcScenario(SvcConfig(FALSE, TRUE, DEFAULT_RETRY_CONFIG, NoProvider),
                      <<"anthropic", "openai">>, SvcSpentBudget, 1)}
    \cup {SvcScenario(SvcConfig(FALSE, FALSE, DEFAULT_RETRY_CONFIG, NoProvider),
                      <<"openai">>, budget, SvcNumCallers) :
            budget \in SvcBudgets \cup {NoBudget}}
    \cup {SvcScenario(WithCallbacks(SvcConfig(FALSE, enableCircuitBreaker,
                                              DEFAULT_RETRY_CONFIG, NoProvider),
                                    hooks[1], hooks[2]),
                      <<"openai">>, SvcFreshBudget, 1) :
            enableCircuitBreaker \in BOOLEAN,
            hooks \in {<<"throws", "returns">>, <<"returns", "throws">>,
                       <<NoCallback, NoCallback>>}}

\* what provider.generate() resolves with: a text that is the JSON of a value
\* of the output schema, a text that is no JSON, the JSON of another value;
\* with no cost, a cost of 0, a cost of 3
SvcResponses ==
    {[content |-> "json", totalTokens |-> SvcTokens, costUsd |-> cost] :
        cost \in {NoCost, 0, 3}}
    \cup {[content |-> "text", totalTokens |-> SvcTokens, costUsd |-> NoCost],
          [content |-> "unfit", totalTokens |-> SvcTokens, costUsd |-> 3]}

\* what provider.generate() of provider p rejects with: LLMErrors, and an
\* Error of another class
SvcGenErrors(p) ==
    {LLMError({"Service Unavailable"}, p, 503, TRUE, NoCause),
     LLMError({"bad request"}, p, 400, FALSE, NoCause),
     PlainError({"bad request"})}

Init ==
    /\ \E s \in SvcScenarios :
        /\ serviceConfig = s.config
        /\ providers = s.providers
        /\ tokenBudget = s.budget
        /\ calls = [c \in 1..s.callers |-> SvcIdle]
    /\ circuitBreakers = [p \in SvcProviders |-> NoBreaker]
    /\ clock = SvcStartTime
    /\ last = SvcNoLast
    /\ ledger = [daily |-> tokenBudget.dailyUsage, monthly |-> tokenBudget.monthlyUsage,
                 month |-> tokenBudget.monthlyUsage]
    /\ cls = ClsUnused
    /\ RtUnused
    /\ CbUnused
    /\ RegUnused
    /\ BoUnused

\* what the step did to the call, for `last`
SvcSummary(c, call, outcome, e, log) ==
    [entered |-> calls[c].status = "idle", kind |-> call.kind, provider |-> call.provider,
     inputValid |-> call.inputValid, outcome |-> outcome, error |-> e, response |-> call.response, gens |-> call.gens,
     retries |-> call.retry.onRetryLog, clean |-> call.clean, log |-> log,
     abandoned |-> call.abandoned, asked |-> NoProvider, json |-> JsonUnset, wasOpen |-> {}]

\* c's call ends by throwing e (its promise rejects)
SvcThrows(c, call, e, log) ==
    /\ calls' = [calls EXCEPT ![c] = SvcIdle]
    /\ last' = SvcSummary(c, call, "threw", e, log)

\* c's call ends by returning its response
SvcReturns(c, call, log) ==
    /\ calls' = [calls EXCEPT ![c] = SvcIdle]
    /\ last' = SvcSummary(c, call, "returned", NoError, log)

\* c's call begins, asked of provider `asked` (NoProvider: of none); it ends
\* at once by throwing e, or goes on with the request passed to its first
\* provider.generate() call having the json flag `json`
SvcEnters(c, call, outcome, e, asked, json) ==
    /\ calls' = [calls EXCEPT ![c] = IF outcome = "pending" THEN call ELSE SvcIdle]
    /\ last' = [SvcSummary(c, call, outcome, e, <<>>) EXCEPT
                   !.asked = asked,
                   !.json = IF outcome = "pending" THEN json ELSE JsonUnset]

\* c's call goes on
SvcGoesOn(c, call) ==
    /\ calls' = [calls EXCEPT ![c] = call]
    /\ last' = IF calls[c].status = "idle"
               THEN SvcSummary(c, call, "pending", NoError, <<>>)
               ELSE SvcNoLast

\* complete(prompt, options, provider) or ask(request, provider) is called,
\* with options.json (request.options.json for ask) being optionsJson:
\* getProvider, for ask the input validation, then executeRequest up to the
\* first provider.generate() call
SvcBegin(c, kind, provider, inputValid, optionsJson) ==
    /\ calls[c].status = "idle"
    /\ LET selected == GetProvider(providers, serviceConfig.defaultProvider, provider)
           early == EntryError(kind, selected, inputValid)
           p == selected.provider
           json == RequestJson(kind, optionsJson)
           fresh == [SvcIdle EXCEPT !.kind = kind, !.provider = p,
                                    !.inputValid = inputValid]
           budget == IF tokenBudget.configured
                     THEN BudgetAfterReset(tokenBudget, clock)
                     ELSE tokenBudget
           breaker == BreakerChecked(
                          IF circuitBreakers[p] = NoBreaker
                          THEN BreakerClosed ELSE circuitBreakers[p],
                          clock, ServiceBreakerConfig)
           started == [fresh EXCEPT !.status = "awaiting", !.gens = 1,
                                    !.retry = IF serviceConfig.enableRetry
                                              THEN RetryBegin ELSE RtIdle]
       IN  IF early # NoError
           THEN /\ SvcEnters(c, fresh, "threw", early, provider, json)
                /\ UNCHANGED <<tokenBudget, ledger, circuitBreakers>>
           ELSE /\ tokenBudget' = budget
                /\ ledger' = IF budget # tokenBudget
                             THEN [ledger EXCEPT !.daily = budget.dailyUsage,
                                                 !.monthly = budget.monthlyUsage]
                             ELSE ledger
                /\ IF budget.configured /\ BudgetExhausted(budget)
                   THEN /\ SvcEnters(c, fresh, "threw",
                                     BudgetError(budget, serviceConfig.defaultProvider),
                                     provider, json)
                        /\ UNCHANGED circuitBreakers
                   ELSE IF serviceConfig.enableCircuitBreaker
                   THEN /\ circuitBreakers' = [circuitBreakers EXCEPT ![p] = breaker]
                        /\ IF breaker.state = "open"
                           THEN SvcEnters(c, fresh, "threw", CircuitOpenError, provider, json)
                           ELSE SvcEnters(c, started, "pending", NoError, provider, json)
                   ELSE /\ SvcEnters(c, started, "pending", NoError, provider, json)
                        /\ UNCHANGED circuitBreakers
    /\ UNCHANGED <<serviceConfig, providers, clock, clsVars, rtVars, cbVars, regVars, boVars>>

\* complete() is called
SvcComplete(c) ==
    \E provider \in SvcProviders \cup {NoProvider} :
        SvcBegin(c, "complete", provider, TRUE, JsonUnset)

\* ask() is called; request.options.json is left out or false (true gives
\* the request that leaving it out gives), and is varied for a valid input
SvcAsk(c) ==
    \E provider \in SvcProviders \cup {NoProvider}, inputValid \in BOOLEAN,
       optionsJson \in {JsonUnset, "off"} :
        /\ inputValid \/ optionsJson = JsonUnset
        /\ SvcBegin(c, "ask", provider, inputValid, optionsJson)

\* the execution of c's request is over with error e (out of withRetry, or out
\* of executeFn when retry is off): next the breaker's catch, or the caller
SvcExecutionFailed(c, call, e) ==
    IF serviceConfig.enableCircuitBreaker
    THEN SvcGoesOn(c, [call EXCEPT !.status = "settling", !.error = e])
    ELSE SvcThrows(c, call, e, <<>>)

\* c's attempt failed with e: withRetry's catch block when retry is on
SvcAttemptFailed(c, call, e) ==
    IF serviceConfig.enableRetry
    THEN LET r == RetryRejected(call.retry, e, serviceConfig.retryConfig,
                                OnRetrySupplied(serviceConfig))
         IN  IF r.status = "sleeping"
             THEN SvcGoesOn(c, [call EXCEPT !.status = "sleeping", !.retry = r])
             ELSE SvcExecutionFailed(c, [call EXCEPT !.retry = r], r.thrown)
    ELSE SvcExecutionFailed(c, call, e)

\* c's pending provider.generate() resolves before the timer: the attempt,
\* and with it withRetry, is over with the response
SvcGenResolves(c) ==
    /\ calls[c].status = "awaiting"
    /\ \E response \in SvcResponses :
        SvcGoesOn(c, [calls[c] EXCEPT
            !.status = IF serviceConfig.enableCircuitBreaker THEN "settling" ELSE "executed",
            !.retry = IF serviceConfig.enableRetry THEN RetryResolved(@) ELSE @,
            !.response = response, !.timers = @ + 1])
    /\ UNCHANGED <<serviceConfig, providers, circuitBreakers, tokenBudget, ledger, clock,
                   clsVars, rtVars, cbVars, regVars, boVars>>

\* c's pending provider.generate() rejects before the timer
SvcGenRejects(c) ==
    /\ calls[c].status = "awaiting"
    /\ \E e \in SvcGenErrors(calls[c].provider) :
        SvcAttemptFailed(c,
            [calls[c] EXCEPT !.clean = @ /\ IsLLMError(e) /\ e.retryable /\ e.statusCode = 503,
                             !.timers = @ + 1],
            e)
    /\ UNCHANGED <<serviceConfig, providers, circuitBreakers, tokenBudget, ledger, clock,
                   clsVars, rtVars, cbVars, regVars, boVars>>

\* withTimeout's timer fires while c's provider.generate() is pending
SvcTimerFires(c) ==
    /\ calls[c].status = "awaiting"
    /\ SvcAttemptFailed(c, [calls[c] EXCEPT !.clean = FALSE, !.abandoned = @ + 1],
                        TimeoutError)
    /\ UNCHANGED <<serviceConfig, providers, circuitBreakers, tokenBudget, ledger, clock,
                   clsVars, rtVars, cbVars, regVars, boVars>>

\* a provider.generate() call that c's call abandoned at a timeout settles,
\* with a response or an error: Promise.race has settled already
SvcAbandonedSettles(c) ==
    /\ calls[c].status # "idle"
    /\ calls[c].abandoned > 0
    /\ SvcGoesOn(c, [calls[c] EXCEPT !.abandoned = @ - 1])
    /\ UNCHANGED <<serviceConfig, providers, circuitBreakers, tokenBudget, ledger, clock,
                   clsVars, rtVars, cbVars, regVars, boVars>>

\* the timer of an attempt of c's call whose provider.generate() settled
\* first fires: Promise.race has settled already
SvcStaleTimerFires(c) ==
    /\ calls[c].status # "idle"
    /\ calls[c].timers > 0
    /\ SvcGoesOn(c, [calls[c] EXCEPT !.timers = @ - 1])
    /\ UNCHANGED <<serviceConfig, providers, circuitBreakers, tokenBudget, ledger, clock,
                   clsVars, rtVars, cbVars, regVars, boVars>>

\* c's backoff sleep ends: the next attempt calls provider.generate()
SvcSleepDone(c) ==
    /\ calls[c].status = "sleeping"
    /\ SvcGoesOn(c, [calls[c] EXCEPT !.status = "awaiting", !.retry = RetryWake(@),
                                     !.gens = @ + 1])
    /\ UNCHANGED <<serviceConfig, providers, circuitBreakers, tokenBudget, ledger, clock,
                   clsVars, rtVars, cbVars, regVars, boVars>>

\* the settling that counts a failure on the breaker of every provider
SvcBreakerSettlesShared(c) ==
    /\ calls[c].status = "settling"
    /\ LET p == calls[c].provider
       IN  IF calls[c].error = NoError
           THEN /\ circuitBreakers' = [circuitBreakers EXCEPT ![p] = OnSuccess(@)]
                /\ SvcGoesOn(c, [calls[c] EXCEPT !.status = "executed"])
           ELSE /\ circuitBreakers' = [q \in SvcProviders |->
                       IF circuitBreakers[q] = NoBreaker THEN NoBreaker
                       ELSE OnFailure(circuitBreakers[q], clock, ServiceBreakerConfig)]
                /\ SvcThrows(c, calls[c], calls[c].error, <<>>)
    /\ UNCHANGED <<serviceConfig, providers, tokenBudget, ledger, clock, clsVars, rtVars, cbVars, regVars, boVars>>

\* CircuitBreaker.execute resumes after `await fn()`: onSuccess, or onFailure
\* and rethrow
SvcBreakerSettles(c) ==
    /\ calls[c].status = "settling"
    /\ LET p == calls[c].provider
       IN  IF calls[c].error = NoError
           THEN /\ circuitBreakers' = [circuitBreakers EXCEPT ![p] = OnSuccess(@)]
                /\ SvcGoesOn(c, [calls[c] EXCEPT !.status = "executed"])
           ELSE /\ circuitBreakers' = [circuitBreakers EXCEPT ![p] =
                       OnFailure(@, clock, ServiceBreakerConfig)]
                /\ SvcThrows(c, calls[c], calls[c].error, <<>>)
    /\ UNCHANGED <<serviceConfig, providers, tokenBudget, ledger, clock, clsVars, rtVars, cbVars, regVars, boVars>>

\* executeRequest resumes with the response: onCost, onRequest (a callback
\* that throws ends executeRequest there), the budget update, and the return;
\* for ask the parsing of the output.  `ledger` counts the tokens of the
\* executeRequest calls that returned.
SvcFinish(c) ==
    /\ calls[c].status = "executed"
    /\ LET call == calls[c]
           told == Telemetry(call.response, call.provider, serviceConfig)
           credited == told.error = NoError /\ tokenBudget.configured
           log == told.log \o (IF credited
                               THEN <<<<"usage", call.response.totalTokens>>>>
                               ELSE <<>>)
       IN  /\ tokenBudget' = IF credited
                             THEN BudgetCharged(tokenBudget, call.response.totalTokens)
                             ELSE tokenBudget
           /\ ledger' = IF credited
                        THEN [daily |-> ledger.daily + call.response.totalTokens,
                              monthly |-> ledger.monthly + call.response.totalTokens,
                              month |-> ledger.month + call.response.totalTokens]
                        ELSE ledger
           /\ IF told.error # NoError
              THEN SvcThrows(c, call, told.error, log)
              ELSE IF call.kind = "ask" /\ ~OutputParses(call.response)
              THEN SvcThrows(c, call,
                             OutputParseError(call.provider, OutputFailure(call.response)),
                             log)
              ELSE SvcReturns(c, [call EXCEPT !.response = Returned(call.kind, @)], log)
    /\ UNCHANGED <<serviceConfig, providers, circuitBreakers, clock, clsVars, rtVars, cbVars, regVars, boVars>>

\* resetCircuitBreakers()
SvcResetCircuitBreakers ==
    /\ circuitBreakers' = [p \in SvcProviders |->
           IF circuitBreakers[p] = NoBreaker THEN NoBreaker ELSE BreakerReset(circuitBreakers[p])]
    /\ last' = [SvcNoLast EXCEPT
                   !.kind = "reset",
                   !.wasOpen = {p \in SvcProviders : circuitBreakers[p].state = "open"}]
    /\ UNCHANGED <<serviceConfig, providers, tokenBudget, ledger, clock, calls,
                   clsVars, rtVars, cbVars, regVars, boVars>>

\* time passes
SvcTick ==
    /\ clock < SvcStartTime + SvcMaxTicks * SvcTickUnits
    /\ clock' = clock + SvcTickUnits
    /\ last' = SvcNoLast
    /\ ledger' = IF GetMonth(clock') # GetMonth(clock)
                 THEN [ledger EXCEPT !.month = 0]
                 ELSE ledger
    /\ UNCHANGED <<serviceConfig, providers, circuitBreakers, tokenBudget, calls,
                   clsVars, rtVars, cbVars, regVars, boVars>>

Next ==
    \/ \E c \in DOMAIN calls : SvcComplete(c)
    \/ \E c \in DOMAIN calls : SvcAsk(c)
    \/ \E c \in DOMAIN calls : SvcGenResolves(c)
    \/ \E c \in DOMAIN calls : SvcGenRejects(c)
    \/ \E c \in DOMAIN calls : SvcTimerFires(c)
    \/ \E c \in DOMAIN calls : SvcAbandonedSettles(c)
    \/ \E c \in DOMAIN calls : SvcStaleTimerFires(c)
    \/ \E c \in DOMAIN calls : SvcSleepDone(c)
    \/ \E c \in DOMAIN calls : SvcBreakerSettles(c)
    \/ \E c \in DOMAIN calls : SvcFinish(c)
    \/ SvcResetCircuitBreakers
    \/ SvcTick

Spec == Init /\ [][Next]_vars


\* the budget's usage has reached one of its limits
SvcBudgetSpent ==
    /\ tokenBudget.configured
    /\ \/ tokenBudget.dailyUsage >= tokenBudget.dailyLimit
       \/ tokenBudget.monthlyUsage >= tokenBudget.monthlyLimit

\* C5: with a token budget configured whose daily or monthly usage has reached
\* its limit once the due reset is applied, a complete or ask call whose
\* provider resolves and, for ask, whose input passes its schema throws a
\* non-retryable budget-exceeded LLMError (status 429) at once; no call made
\* on such a budget, whatever it throws, invokes provider.generate, creates a
\* circuit breaker or comes to a pending attempt.  (The step that enters the
\* call leaves the budget with the due reset applied.)
C5_BudgetRejects ==
    last.entered /\ SvcBudgetSpent =>
        /\ last.outcome = "threw"
        /\ last.gens = 0
        /\ \A c \in DOMAIN calls : calls[c].status = "idle" \/ calls[c].gens > 0
        /\ last.provider # NoProvider /\ last.inputValid =>
              /\ IsLLMError(last.error)
              /\ ~last.error.retryable
              /\ last.error.statusCode = 429
              /\ \/ "Daily token budget exceeded" \in last.error.message
                 \/ "Monthly token budget exceeded" \in last.error.message

\* a call was refused for the monthly limit after the daily reset was applied
C5_Witness ==
    /\ last.entered
    /\ last.outcome = "threw"
    /\ IsLLMError(last.error)
    /\ "Monthly token budget exceeded" \in last.error.message
    /\ tokenBudget.dailyUsage = 0
    /\ tokenBudget.resetsAt = clock + Day
    /\ last.kind = "ask"

\* C6: an ask call whose input fails the request's input schema throws the
\* schema's validation error (once its provider is resolved) without invoking
\* provider.generate: the call is over in the step that entered it, and the
\* token budget, the circuit breakers and the other callers' calls are as
\* they were before.
C6_InvalidInputAborts ==
    [][last'.entered /\ last'.kind = "ask" /\ ~last'.inputValid =>
          /\ last'.outcome = "threw"
          /\ last'.gens = 0
          /\ last'.provider # NoProvider => last'.error = InputValidationError
          /\ tokenBudget' = tokenBudget
          /\ circuitBreakers' = circuitBreakers
          /\ calls' = calls]_vars

\* an ask with invalid input was refused by a service whose budget is due for
\* a reset and whose provider has a circuit breaker with failures counted
C6_Witness ==
    \/ /\ last.entered /\ last.kind = "ask" /\ ~last.inputValid
       /\ last.error = InputValidationError
       /\ tokenBudget.configured /\ clock > tokenBudget.resetsAt
       /\ tokenBudget.dailyUsage > 0
    \/ /\ last.entered /\ last.kind = "ask" /\ ~last.inputValid
       /\ last.error = InputValidationError
       /\ circuitBreakers[last.provider] # NoBreaker
       /\ circuitBreakers[last.provider].failureCount > 0

\* C7 (as stated): with retry enabled under the default retry configuration,
\* a complete call whose provider.generate calls fail k times in a row
\* (k <= maxRetries) with retryable LLMErrors of status 503 and then succeed
\* returns the response after exactly k + 1 generate calls, the retry callback
\* having fired k times with attempts 1..k; it throws only after maxRetries + 1
\* such failures.
C7_AsStated ==
    /\ serviceConfig.enableRetry
    /\ serviceConfig.retryConfig = DEFAULT_RETRY_CONFIG
    /\ last.kind = "complete" /\ ~last.entered /\ last.clean
    => /\ last.outcome = "returned" =>
             /\ last.response \in SvcResponses
             /\ last.gens <= DEFAULT_RETRY_CONFIG.maxRetries + 1
             /\ last.retries = [i \in 1..(last.gens - 1) |-> i]
       /\ last.outcome = "threw" => last.gens = DEFAULT_RETRY_CONFIG.maxRetries + 1

\* C7, the part that holds: the response is returned after exactly k + 1
\* generate calls; the retry callback fires for attempts 1..k when the call
\* runs inside a circuit breaker, and no callback exists when it does not
C7_RetriesThenReturns ==
    /\ serviceConfig.enableRetry
    /\ serviceConfig.retryConfig = DEFAULT_RETRY_CONFIG
    /\ last.kind = "complete" /\ ~last.entered /\ last.clean
    => /\ last.outcome = "returned" =>
             /\ last.response \in SvcResponses
             /\ last.gens <= DEFAULT_RETRY_CONFIG.maxRetries + 1
             /\ last.retries = IF serviceConfig.enableCircuitBreaker
                               THEN [i \in 1..(last.gens - 1) |-> i]
                               ELSE <<>>
       /\ last.outcome = "threw" => last.gens = DEFAULT_RETRY_CONFIG.maxRetries + 1

\* a complete call returned after two 503 failures and a success
C7_Witness ==
    /\ serviceConfig.enableRetry
    /\ serviceConfig.retryConfig = DEFAULT_RETRY_CONFIG
    /\ last.kind = "complete" /\ last.clean /\ last.outcome = "returned"
    /\ last.gens = 3

\* the step is the late settling of a loser of one of c's timeout races
SvcLoserStep(c) ==
    /\ calls'[c] # calls[c]
    /\ [calls'[c] EXCEPT !.abandoned = calls[c].abandoned, !.timers = calls[c].timers]
           = calls[c]

\* C11: with the circuit breaker and retry both enabled, a complete/ask call
\* contributes one outcome to its provider's breaker whatever the number of
\* its attempts: entering the call leaves failureCount as it is (but for the
\* move of an open breaker to half-open, which is no outcome), the steps of
\* its attempts (rejections, timeouts, backoff sleeps, retries, late
\* settlements of abandoned calls and timers) leave every breaker as it is, and the one settling step that follows the attempts
\* either adds exactly 1 to failureCount (the attempts failed, maxRetries + 1
\* of them included) or sets failureCount to 0 (an attempt succeeded), on the
\* call's provider only; the call does not settle on the breaker again.
C11_OneBreakerOutcome ==
    [][serviceConfig.enableRetry /\ serviceConfig.enableCircuitBreaker =>
          \A c \in DOMAIN calls :
              calls'[c] # calls[c] \/ (calls[c].status = "idle" /\ last'.entered) =>
                  LET p == IF calls[c].status = "idle" THEN last'.provider
                           ELSE calls[c].provider
                      others == \A q \in SvcProviders \ {p} :
                                    circuitBreakers'[q] = circuitBreakers[q]
                  IN  CASE SvcLoserStep(c) ->
                               circuitBreakers' = circuitBreakers
                        [] calls[c].status = "idle" ->
                               /\ others
                               /\ p # NoProvider =>
                                      \/ circuitBreakers'[p].failureCount
                                             = circuitBreakers[p].failureCount
                                      \/ /\ circuitBreakers[p].state = "open"
                                         /\ circuitBreakers'[p].state = "half-open"
                        [] calls[c].status = "settling" ->
                               /\ others
                               /\ calls'[c].status \in {"idle", "executed"}
                               /\ circuitBreakers'[p].failureCount =
                                      IF calls[c].error = NoError
                                      THEN 0
                                      ELSE circuitBreakers[p].failureCount + 1
                               /\ calls[c].error = NoError <=> calls'[c].status = "executed"
                        [] OTHER ->
                               /\ circuitBreakers' = circuitBreakers
                               /\ calls'[c].status # "settling" =>
                                      calls'[c].status \in {"awaiting", "sleeping", "idle"}
                               /\ calls'[c].status = "idle" => calls[c].status = "executed"]_vars

\* a call whose maxRetries + 1 attempts all failed has ended, and the breaker
\* of its provider, which counted 2 failures before, counts 3
C11_Witness ==
    /\ serviceConfig.enableRetry /\ serviceConfig.enableCircuitBreaker
    /\ last.outcome = "threw" /\ ~last.entered
    /\ last.gens = serviceConfig.retryConfig.maxRetries + 1
    /\ IsLLMError(last.error) /\ "Failed after" \in last.error.message
    /\ circuitBreakers[last.provider].failureCount = 3

\* the provider.generate() calls issued by c's call that have not settled
SvcOutstanding(c) ==
    (IF calls[c].status = "awaiting" THEN 1 ELSE 0) + calls[c].abandoned

\* C12 (as stated): at every moment at most one provider.generate() call
\* issued by a complete/ask call is unsettled: an attempt's generate call is
\* started only when no generate call of the earlier attempts of the same
\* call is still in flight.
C12_AsStated ==
    \A c \in DOMAIN calls : SvcOutstanding(c) <= 1

\* the second attempt of a call has started its provider.generate() call while
\* the call of the first attempt, abandoned at its timeout, is still in flight
C12_Witness ==
    \E c \in DOMAIN calls :
        /\ calls[c].status = "awaiting"
        /\ calls[c].retry.attempt = 1
        /\ calls[c].abandoned = 1

\* e is the rejection of a timeout guard: a retryable LLMError of status 408
SvcIsTimeout(e) ==
    /\ e.class = "LLMError"
    /\ e.retryable
    /\ e.statusCode = 408
    /\ "timed out" \in e.message

\* the step is the expiry of the timer of c's pending attempt
SvcTimerStep(c) ==
    /\ calls[c].status = "awaiting"
    /\ (IF calls'[c].status = "idle" THEN last'.abandoned ELSE calls'[c].abandoned)
           = calls[c].abandoned + 1

\* the error c's attempt has just failed with
SvcAttemptError(c) ==
    IF calls'[c].status = "sleeping" THEN calls'[c].retry.lastError
    ELSE IF calls'[c].status = "settling" THEN calls'[c].error
    ELSE last'.error

\* C13: the first of provider.generate() and the timer to settle decides the
\* attempt, and the loser is ignored.  When the timer expires first the
\* attempt fails with a retryable timeout LLMError (status 408), handed to the
\* retry loop, the breaker or the caller (on the last attempt as the cause of
\* the retry loop's final error), and the call has no response; the later
\* settlement of that generate call, like the later expiry of the timer of an
\* attempt whose generate call settled first, changes nothing but the count
\* of the losers in flight: not the call's status, response or error, not
\* the token budget, not the circuit breakers, no other call, and it ends no
\* call and invokes no callback.
C13_LoserIgnored ==
    [][\A c \in DOMAIN calls :
          /\ SvcTimerStep(c) =>
                /\ calls'[c].status \in {"sleeping", "settling", "idle"}
                /\ calls'[c].status = "idle" => last'.outcome = "threw"
                /\ calls'[c].response = NoResponse
                /\ \/ SvcIsTimeout(SvcAttemptError(c))
                   \/ /\ IsLLMError(SvcAttemptError(c))
                      /\ SvcAttemptError(c).cause # NoCause
                      /\ SvcIsTimeout(SvcAttemptError(c).cause)
                      /\ calls[c].retry.attempt = serviceConfig.retryConfig.maxRetries
          /\ SvcLoserStep(c) =>
                /\ calls'[c].abandoned + calls'[c].timers
                       = calls[c].abandoned + calls[c].timers - 1
                /\ tokenBudget' = tokenBudget
                /\ circuitBreakers' = circuitBreakers
                /\ last' = SvcNoLast
                /\ \A o \in DOMAIN calls \ {c} : calls'[o] = calls[o]]_vars

\* the only attempt so far timed out and its generate call has settled since,
\* during the backoff sleep
C13_Witness ==
    \E c \in DOMAIN calls :
        /\ calls[c].status = "sleeping"
        /\ calls[c].gens = 1
        /\ calls[c].retry.lastError = TimeoutError
        /\ calls[c].abandoned = 0

\* the generate call of an attempt resolved, and the attempt's timer has fired
\* since, before the response was returned
C13_WitnessStaleTimer ==
    \E c \in DOMAIN calls :
        /\ calls[c].status = "executed"
        /\ calls[c].gens = 1
        /\ calls[c].timers = 0

\* C14: no token-usage update is lost, whatever the interleaving of the
\* concurrent calls: at every moment, and so when all calls have settled,
\* dailyUsage and monthlyUsage equal their value after the last reset (their
\* initial value when there was none) plus the sum of usage.totalTokens over
\* the calls whose execution has succeeded since; a failed call adds nothing.
C14_NoLostUpdate ==
    tokenBudget.configured =>
        /\ tokenBudget.dailyUsage = ledger.daily
        /\ tokenBudget.monthlyUsage = ledger.monthly

\* three executions were credited to a daily budget of two: two calls passed
\* the budget check together, and every call has settled
C14_Witness ==
    /\ tokenBudget.configured
    /\ Len(calls) > 1
    /\ \A c \in DOMAIN calls : calls[c].status = "idle"
    /\ last.outcome = "returned"
    /\ tokenBudget.dailyUsage = 3 * SvcTokens
    /\ tokenBudget.dailyUsage > tokenBudget.dailyLimit

\* executeRequest of c's call resumes after the execution in this step, and
\* the call ends
SvcFinishStep(c) ==
    /\ calls[c].status = "executed"
    /\ calls'[c].status = "idle"

\* no callback of the service throws
SvcCallbacksReturn ==
    /\ serviceConfig.onCost # "throws"
    /\ serviceConfig.onRequest # "throws"

\* C15: a complete call whose execution succeeded returns, when no callback
\* throws; and the complete call that returns returns the provider's response
\* as it is, content and usage, and has added exactly usage.totalTokens to
\* dailyUsage and to monthlyUsage of the configured budget.
C15_CompleteReturnsAndCharges ==
    [][\A c \in DOMAIN calls :
        (SvcFinishStep(c) /\ calls[c].kind = "complete")
        => /\ SvcCallbacksReturn => last'.outcome = "returned"
           /\ last'.outcome = "returned" =>
                 /\ last'.response = calls[c].response
                 /\ last'.response \in SvcResponses
                 /\ tokenBudget.configured =>
                       /\ tokenBudget'.dailyUsage =
                              tokenBudget.dailyUsage + calls[c].response.totalTokens
                       /\ tokenBudget'.monthlyUsage =
                              tokenBudget.monthlyUsage + calls[c].response.totalTokens
                       /\ tokenBudget'.dailyLimit = tokenBudget.dailyLimit
                       /\ tokenBudget'.monthlyLimit = tokenBudget.monthlyLimit
                       /\ tokenBudget'.resetsAt = tokenBudget.resetsAt]_vars

\* a complete call on a budget with nothing used today has returned a text
\* of 6 tokens: dailyUsage is 6
C15_Witness ==
    /\ last.outcome = "returned"
    /\ last.kind = "complete"
    /\ last.response.content = "text"
    /\ last.response.totalTokens = SvcTokens
    /\ tokenBudget = [SvcFreshBudget EXCEPT !.dailyUsage = SvcTokens,
                                            !.monthlyUsage = 2 * SvcTokens]

\* C16: when the response the provider gave to an ask call is a text that is
\* no JSON, or the JSON of a value that fails the output schema, and the
\* callbacks returned, ask throws a non-retryable LLMError of the provider
\* whose cause is the parse or validation failure and whose message quotes it,
\* and the call ends there: provider.generate has been called as many times as
\* when the response arrived, and no call that holds a response is waiting for
\* a generate call or a backoff sleep.
C16_BadOutputRaises ==
    [][/\ \A c \in DOMAIN calls :
            (/\ SvcFinishStep(c)
             /\ calls[c].kind = "ask"
             /\ calls[c].response.content \in {"text", "unfit"}
             /\ SvcCallbacksReturn)
            => (/\ calls'[c] = SvcIdle
                /\ last'.outcome = "threw"
                /\ last'.gens = calls[c].gens
                /\ IsLLMError(last'.error)
                /\ ~last'.error.retryable
                /\ last'.error.statusCode = NoStatus
                /\ last'.error.provider = calls[c].provider
                /\ "Failed to parse LLM output" \in last'.error.message
                /\ last'.error.cause.class = "Error"
                /\ last'.error.cause.message \subseteq last'.error.message
                /\ last'.error.cause.message =
                       IF calls[c].response.content = "text"
                       THEN {"Unexpected token"} ELSE {"invalid output"})
       /\ \A c \in DOMAIN calls :
            calls[c].response # NoResponse => calls[c].status \in {"settling", "executed"}]_vars

\* an ask call under retry whose second generate call returned a JSON text
\* that fails the output schema has thrown, after two generate calls
C16_Witness ==
    /\ last.outcome = "threw"
    /\ last.kind = "ask"
    /\ last.response.content = "unfit"
    /\ serviceConfig.enableRetry
    /\ last.gens = 2
    /\ IsLLMError(last.error)
    /\ last.error.cause.message = {"invalid output"}

\* the same for a text that is no JSON, on the first generate call
C16_WitnessNoJson ==
    /\ last.outcome = "threw"
    /\ last.kind = "ask"
    /\ last.response.content = "text"
    /\ last.gens = 1
    /\ IsLLMError(last.error)
    /\ last.error.cause.message = {"Unexpected token"}

\* C17: when an ask call fails on the parsing or the schema validation of the
\* output, after a successful provider call and callbacks that returned, the
\* usage.totalTokens of that response is added to dailyUsage and to
\* monthlyUsage once, in the step that ends the call; usage only ever grows in
\* the step that ends a call after its execution, so nothing is added for the
\* call again.
C17_CreditedOnce ==
    [][/\ \A c \in DOMAIN calls :
            (/\ SvcFinishStep(c)
             /\ calls[c].kind = "ask"
             /\ calls[c].response.content \in {"text", "unfit"}
             /\ SvcCallbacksReturn
             /\ tokenBudget.configured)
            => (/\ last'.outcome = "threw"
                /\ tokenBudget'.dailyUsage =
                       tokenBudget.dailyUsage + calls[c].response.totalTokens
                /\ tokenBudget'.monthlyUsage =
                       tokenBudget.monthlyUsage + calls[c].response.totalTokens)
       /\ (\/ tokenBudget'.dailyUsage > tokenBudget.dailyUsage
           \/ tokenBudget'.monthlyUsage > tokenBudget.monthlyUsage)
          => \E c \in DOMAIN calls : SvcFinishStep(c)]_vars

\* an ask call on a budget with nothing used today has failed on a response
\* that is no JSON: its 6 tokens are counted, once
C17_Witness ==
    /\ last.outcome = "threw"
    /\ last.kind = "ask"
    /\ last.response.content = "text"
    /\ "Failed to parse LLM output" \in last.error.message
    /\ tokenBudget.configured
    /\ tokenBudget.dailyLimit = SvcFreshBudget.dailyLimit
    /\ tokenBudget.dailyUsage = last.response.totalTokens
    /\ tokenBudget.monthlyUsage = SvcFreshBudget.monthlyUsage + last.response.totalTokens

\* C18 (as stated): every error that a complete or ask call throws to its
\* caller is an LLMError, with a provider and a retryable flag, whatever the
\* failure: input validation, timeout, provider failure, budget, open circuit,
\* output parsing.
C18_AsStated ==
    last.outcome = "threw" =>
        /\ IsLLMError(last.error)
        /\ last.error.provider \in SvcProviders
        /\ last.error.retryable \in BOOLEAN

\* C18, the part that holds: the errors made by the service, the retry
\* executor, the breaker and the timeout guard are LLMErrors; only an error of
\* the input schema, of the provider or of a callback reaches the caller as
\* it was thrown
C18_OwnErrorsAreLLMErrors ==
    (/\ last.outcome = "threw"
     /\ ~IsLLMError(last.error))
    => \/ last.kind = "ask" /\ ~last.inputValid /\ last.error = InputValidationError
       \/ last.gens > 0 /\ last.error \in SvcGenErrors(last.provider)
       \/ last.response # NoResponse /\ last.error = CallbackError

\* an ask call whose input fails the input schema has thrown the schema's
\* error, which is no LLMError
C18_Witness ==
    /\ last.outcome = "threw"
    /\ last.kind = "ask"
    /\ ~last.inputValid
    /\ last.gens = 0
    /\ last.error = InputValidationError
    /\ ~IsLLMError(last.error)

\* a complete call under retry has thrown the error of its provider, which
\* is no LLMError, as it was
C18_WitnessProviderError ==
    /\ last.outcome = "threw"
    /\ last.kind = "complete"
    /\ serviceConfig.enableRetry
    /\ last.gens = 2
    /\ last.error = PlainError({"bad request"})

\* the step just taken ended a call whose execution had succeeded
SvcEndedAfterExecution ==
    /\ last.outcome \in {"returned", "threw"}
    /\ last.response # NoResponse

\* C19 (as stated): an exception thrown by the onCost or onRequest callback
\* does not reach the caller: the call whose execution succeeded does not
\* throw the callback's error, a complete call returns its response, and the
\* tokens of the response are counted in the budget.
C19_AsStated ==
    (SvcEndedAfterExecution /\ ~SvcCallbacksReturn)
    => /\ last.error # CallbackError
       /\ last.kind = "complete" => last.outcome = "returned"
       /\ tokenBudget.configured =>
              /\ tokenBudget.dailyUsage >= last.response.totalTokens
              /\ tokenBudget.dailyUsage = ledger.daily

\* C19, what the code does: the call whose callback throws throws the
\* callback's error, and the budget is not updated; onRequest is not called once
\* onCost has thrown
C19_CallbackErrorSurfaces ==
    (/\ SvcEndedAfterExecution
     /\ \/ serviceConfig.onRequest = "throws"
        \/ serviceConfig.onCost = "throws" /\ last.response.costUsd \notin {NoCost, 0})
    => /\ last.outcome = "threw"
       /\ last.error = CallbackError
       /\ \A i \in DOMAIN last.log : last.log[i][1] # "usage"
       /\ Len(last.log) = IF serviceConfig.onCost = "throws" THEN 1
                          ELSE IF last.response.costUsd \in {NoCost, 0} THEN 1 ELSE 2

\* a complete call whose provider returned a response has thrown the error
\* of onRequest; the budget counts nothing
C19_Witness ==
    /\ SvcEndedAfterExecution
    /\ last.kind = "complete"
    /\ serviceConfig.onRequest = "throws"
    /\ last.outcome = "threw"
    /\ last.error = CallbackError
    /\ last.response \in SvcResponses
    /\ tokenBudget.configured
    /\ tokenBudget.dailyUsage = 0

\* the same with onCost throwing, inside the circuit breaker, which has
\* recorded the success
C19_WitnessOnCost ==
    /\ SvcEndedAfterExecution
    /\ serviceConfig.onCost = "throws"
    /\ serviceConfig.enableCircuitBreaker
    /\ last.outcome = "threw"
    /\ last.error = CallbackError
    /\ last.log = <<<<"onCost", 3, "openai">>>>
    /\ circuitBreakers["openai"].state = "closed"
    /\ tokenBudget.dailyUsage = 0

\* the positions of the calls of callback fn in the log of the step just taken
SvcLogged(fn) ==
    {i \in DOMAIN last.log : last.log[i][1] = fn}

\* the step just taken ended a call of a service whose two callbacks are
\* supplied and return
SvcEndedWithCallbacks ==
    /\ last.outcome \in {"returned", "threw"}
    /\ serviceConfig.onCost = "returns"
    /\ serviceConfig.onRequest = "returns"

\* onRequest(provider, ...) was called once, onCost(costUsd, ..., provider)
\* once when `costly` and not otherwise, both before the usage was updated
SvcTelemetryOnce(costly) ==
    /\ Cardinality(SvcLogged("onRequest")) = 1
    /\ \A i \in SvcLogged("onRequest") : last.log[i] = <<"onRequest", last.provider>>
    /\ Cardinality(SvcLogged("onCost")) = IF costly THEN 1 ELSE 0
    /\ \A i \in SvcLogged("onCost") :
           last.log[i] = <<"onCost", last.response.costUsd, last.provider>>
    /\ \A i \in SvcLogged("onCost") \cup SvcLogged("onRequest"), j \in SvcLogged("usage") :
           i < j
    /\ tokenBudget.configured => Cardinality(SvcLogged("usage")) = 1

\* C20 (as stated): for a call whose execution succeeded, onRequest is called
\* exactly once with the provider, and onCost exactly once with the cost and
\* the provider if and only if the response carries a cost, both before the
\* token usage is updated; for a call whose execution failed (budget, open
\* circuit, timeout, provider failure, retries exhausted) no callback is
\* called.
C20_AsStated ==
    SvcEndedWithCallbacks =>
        IF last.response # NoResponse
        THEN SvcTelemetryOnce(last.response.costUsd # NoCost)
        ELSE last.log = <<>>

\* C20, what the code does: onCost is called if and only if the cost is
\* present and is not 0
C20_CostZeroSkipped ==
    SvcEndedWithCallbacks =>
        IF last.response # NoResponse
        THEN SvcTelemetryOnce(last.response.costUsd \notin {NoCost, 0})
        ELSE last.log = <<>>

\* a call whose response carries a cost of 0 has returned: onRequest was
\* called, onCost was not
C20_Witness ==
    /\ SvcEndedWithCallbacks
    /\ last.outcome = "returned"
    /\ last.response.costUsd = 0
    /\ last.log = <<<<"onRequest", last.provider>>>>

\* a call whose response carries a cost of 3 has returned on a budget: onCost,
\* onRequest, then the usage
C20_WitnessCost ==
    /\ SvcEndedWithCallbacks
    /\ last.outcome = "returned"
    /\ last.log = <<<<"onCost", 3, "openai">>, <<"onRequest", "openai">>, <<"usage", SvcTokens>>>>

\* a call has failed at a timeout with retries exhausted: no callback
C20_WitnessFailure ==
    /\ SvcEndedWithCallbacks
    /\ last.outcome = "threw"
    /\ last.gens = DefaultMaxRetries + 1
    /\ last.abandoned > 0
    /\ last.response = NoResponse
    /\ last.log = <<>>

-----------------------------------------------------------------------------
(* SpecBackoff: calculateBackoff on every attempt, config and value of      *)
(* Math.random() of the bounded input space.                                *)

\* largest attempt index tried
BoMaxAttempt == 4

\* configs with initialBackoffMs > 0, maxBackoffMs >= initialBackoffMs,
\* backoffMultiplier > 1 and jitter in [0, 1]
BoConfigs ==
    {c \in [initialBackoffMs : {1, 1000}, maxBackoffMs : {1, 1000, 4000, 60000},
            backoffMultiplier : {2, 3}, jitterTenths : {0, 1, 5, 10}] :
        c.maxBackoffMs >= c.initialBackoffMs}

BoInit ==
    /\ bo \in [config : BoConfigs, attempt : 0..BoMaxAttempt,
               random : 0..(RandomSteps - 1), delay : {-1}]
    /\ cls = ClsUnused
    /\ RtUnused
    /\ CbUnused
    /\ SvcUnused
    /\ RegUnused

\* calculateBackoff(attempt, config) is called
BoCalculate ==
    /\ bo.delay = -1
    /\ bo' = [bo EXCEPT !.delay = CalculateBackoff(bo.attempt, bo.config, bo.random)]
    /\ UNCHANGED <<clsVars, rtVars, cbVars, svcVars, regVars>>

BoNext ==
    BoCalculate

SpecBackoff == BoInit /\ [][BoNext]_vars

\* min(initialBackoffMs * backoffMultiplier^attempt, maxBackoffMs), in ms
BoNominal ==
    LET grown == bo.config.initialBackoffMs * Pow(bo.config.backoffMultiplier, bo.attempt)
    IN  IF grown < bo.config.maxBackoffMs THEN grown ELSE bo.config.maxBackoffMs

\* C27: for every config with initialBackoffMs > 0, maxBackoffMs >=
\* initialBackoffMs, backoffMultiplier > 1 and jitter in [0, 1] and every
\* attempt i >= 0, the delay of calculateBackoff lies between
\* min(initialBackoffMs * backoffMultiplier^i, maxBackoffMs) * (1 - jitter/2)
\* and the same times (1 + jitter/2), and is not negative.
C27_DelayWithinJitter ==
    bo.delay # -1 =>
        /\ bo.delay >= 0
        /\ 10 * bo.delay <= BoNominal * (10 * 2 + bo.config.jitterTenths) * (BackoffScale \div 2)
        /\ 10 * bo.delay >= BoNominal * (10 * 2 - bo.config.jitterTenths) * (BackoffScale \div 2)

\* a delay has been computed at the cap, with jitter 1 and the largest value
\* of Math.random(): it is above the cap
C27_Witness ==
    /\ bo.delay # -1
    /\ bo.config.jitterTenths = 10
    /\ bo.random = RandomSteps - 1
    /\ bo.config.initialBackoffMs * Pow(bo.config.backoffMultiplier, bo.attempt)
           > bo.config.maxBackoffMs
    /\ bo.delay > bo.config.maxBackoffMs * BackoffScale

\* a delay has been computed below the cap, with jitter 1 and Math.random()
\* yielding 0: it is half the nominal delay
C27_WitnessLow ==
    /\ bo.delay # -1
    /\ bo.config.jitterTenths = 10
    /\ bo.random = 0
    /\ bo.attempt > 0
    /\ BoNominal < bo.config.maxBackoffMs
    /\ 2 * bo.delay = BoNominal * BackoffScale

-----------------------------------------------------------------------------
(* SpecRegistry: one ProviderRegistry under register and unregister.  Of a  *)
(* provider object only its name and its identity matter.  `reg` keeps,     *)
(* beside the Map, the number of operations made (ops), for each name the   *)
(* number of the operation that registered it since it was last absent      *)
(* (stamp, 0 when absent) and the object registered last under it (current).*)

\* number of register and unregister calls made at most
RegMaxOps == 5
\* number of provider objects of one name
RegInstances == 2

RegNames == {"openrouter", "openai", "anthropic", "groq"}

RegInit ==
    /\ reg = [map |-> <<>>, stamp |-> [n \in RegNames |-> 0],
              current |-> [n \in RegNames |-> NoInstance], ops |-> 0]
    /\ cls = ClsUnused
    /\ RtUnused
    /\ CbUnused
    /\ SvcUnused
    /\ BoUnused

\* register(provider), provider.name = name
RegRegister(name, instance) ==
    /\ reg.ops < RegMaxOps
    /\ reg' = [map |-> MapSet(reg.map, name, instance),
               stamp |-> [reg.stamp EXCEPT ![name] = IF @ = 0 THEN reg.ops + 1 ELSE @],
               current |-> [reg.current EXCEPT ![name] = instance],
               ops |-> reg.ops + 1]
    /\ UNCHANGED <<clsVars, rtVars, cbVars, svcVars, boVars>>

\* unregister(name)
RegUnregister(name) ==
    /\ reg.ops < RegMaxOps
    /\ reg' = [map |-> MapDelete(reg.map, name),
               stamp |-> [reg.stamp EXCEPT ![name] = 0],
               current |-> [reg.current EXCEPT ![name] = NoInstance],
               ops |-> reg.ops + 1]
    /\ UNCHANGED <<clsVars, rtVars, cbVars, svcVars, boVars>>

RegNext ==
    \/ \E name \in RegNames, instance \in 1..RegInstances : RegRegister(name, instance)
    \/ \E name \in RegNames : RegUnregister(name)

SpecRegistry == RegInit /\ [][RegNext]_vars

\* the names registered now
RegPresent ==
    {n \in RegNames : reg.stamp[n] > 0}

\* C22: after any sequence of register and unregister calls, getDefault
\* returns the openrouter provider if one is registered, else the openai
\* provider if one is registered, else the provider whose name was registered
\* first among the names registered now, and nothing when the registry is
\* empty; the provider returned is the object registered last under its name.
C22_GetDefaultPreference ==
    LET name == RegistryGetDefault(MapKeys(reg.map))
    IN  /\ name = IF "openrouter" \in RegPresent THEN "openrouter"
                  ELSE IF "openai" \in RegPresent THEN "openai"
                  ELSE IF RegPresent = {} THEN NoProvider
                  ELSE CHOOSE n \in RegPresent :
                           \A k \in RegPresent : reg.stamp[n] <= reg.stamp[k]
        /\ name # NoProvider => MapGet(reg.map, name) = reg.current[name]
        /\ name = NoProvider => reg.map = <<>>

\* the name registered first was unregistered, and another provider object
\* was registered under the name registered second: getDefault returns the
\* latter, which is neither openrouter nor openai
C22_Witness ==
    /\ Len(reg.map) = 2
    /\ RegistryGetDefault(MapKeys(reg.map)) \in {"anthropic", "groq"}
    /\ reg.stamp[RegistryGetDefault(MapKeys(reg.map))] = 2
    /\ MapGet(reg.map, RegistryGetDefault(MapKeys(reg.map))) = 2
    /\ reg.ops = RegMaxOps

\* openrouter is registered after openai: getDefault returns openrouter
C22_WitnessPreferred ==
    /\ reg.stamp["openai"] > 0
    /\ reg.stamp["openrouter"] > reg.stamp["openai"]
    /\ RegistryGetDefault(MapKeys(reg.map)) = "openrouter"

\* c's fn() rejected in this step
CbRejected(c) ==
    /\ cbCalls[c].status = "running"
    /\ cbCalls'[c].outcome = "rejected"

\* C25: an open breaker with no admitted call outstanding stays as it is,
\* whatever time passes and whatever calls it refuses, until reset() is called
\* or an execute call arrives once resetTimeoutMs has elapsed since the last
\* recorded failure; that call moves the breaker to half-open with
\* failureCount 0 and is passed to the wrapped operation, not refused.
C25_OpenHeals ==
    [][(cb.state = "open" /\ CbRunning = {})
       => /\ \A c \in CbCallers :
                (CbCalled(c) /\ cbClock - cb.lastFailureTime >= cbConfig.resetTimeoutMs)
                => (/\ cb'.state = "half-open"
                    /\ cb'.failureCount = 0
                    /\ cb'.lastFailureTime = cb.lastFailureTime
                    /\ cbCalls'[c].status = "running"
                    /\ cbCalls'[c].invoked = 1
                    /\ cbCalls'[c].outcome # "refused")
          /\ cb' # cb
             => \/ cb' = BreakerClosed /\ cbHist'.last = <<"reset", "open">>
                \/ /\ cbClock - cb.lastFailureTime >= cbConfig.resetTimeoutMs
                   /\ \E c \in CbCallers : CbCalled(c)]_vars

\* a call was refused by the open breaker, and exactly resetTimeoutMs after
\* the last failure the next call has been admitted on the breaker, now
\* half-open
C25_Witness ==
    /\ cbHist.last = <<"admitted", "open">>
    /\ cb.state = "half-open"
    /\ cb.failureCount = 0
    /\ cbClock - cb.lastFailureTime = cbConfig.resetTimeoutMs
    /\ \E c \in CbCallers : cbCalls[c].status = "running"
    /\ \E c \in CbCallers : cbCalls[c].outcome = "refused"

\* C28: the move from open to half-open sets failureCount to 0; a call that
\* fails while the breaker is half-open adds 1 to failureCount and records
\* the time of the failure, as in the closed state, and the breaker opens
\* again only when failureCount has reached failureThreshold: with a
\* threshold above 1 it stays half-open after one failed probe.
C28_ProbeFailureCounts ==
    [][\A c \in CbCallers :
        /\ (CbCalled(c) /\ cb.state = "open" /\ cb'.state = "half-open")
           => cb'.failureCount = 0
        /\ (CbRejected(c) /\ cb.state \in {"half-open", "closed"})
           => (/\ cb'.failureCount = cb.failureCount + 1
               /\ cb'.lastFailureTime = cbClock
               /\ cb'.state = IF cb.failureCount + 1 >= cbConfig.failureThreshold
                              THEN "open" ELSE cb.state)]_vars

\* the first probe of a breaker of threshold 3 has failed: the breaker is
\* half-open with one failure counted
C28_Witness ==
    /\ cbConfig.failureThreshold = CbMaxThreshold
    /\ cbHist.last = <<"failure", "half-open">>
    /\ cbHist.probes = 1
    /\ cb.state = "half-open"
    /\ cb.failureCount = 1

\* probes of that breaker have failed until it opened again
C28_WitnessReopened ==
    /\ cbConfig.failureThreshold = CbMaxThreshold
    /\ cbHist.last = <<"failure", "half-open">>
    /\ cb.state = "open"
    /\ cb.failureCount = CbMaxThreshold

\* name n is registered in the service's registry
SvcRegistered(n) ==
    \E i \in DOMAIN providers : providers[i] = n

\* C21: a complete or ask call asked of a provider that is registered goes to
\* that provider; asked of a provider that is not registered it throws a
\* non-retryable LLMError naming that provider, whatever else is registered,
\* and calls no provider; asked of no provider it goes to the configured
\* default if that is registered, else to openrouter, else to openai, else to
\* the provider registered first; with none of these it throws a
\* non-retryable LLMError and calls no provider.
C21_ProviderResolution ==
    last.entered =>
        LET dp == serviceConfig.defaultProvider
            expected ==
                IF last.asked # NoProvider
                THEN IF SvcRegistered(last.asked) THEN last.asked ELSE NoProvider
                ELSE IF dp # NoProvider /\ SvcRegistered(dp) THEN dp
                ELSE IF SvcRegistered("openrouter") THEN "openrouter"
                ELSE IF SvcRegistered("openai") THEN "openai"
                ELSE IF providers # <<>> THEN providers[1]
                ELSE NoProvider
        IN  /\ last.provider = expected
            /\ expected = NoProvider =>
                   /\ last.outcome = "threw"
                   /\ last.gens = 0
                   /\ IsLLMError(last.error)
                   /\ ~last.error.retryable
                   /\ ~IsRetryableError(last.error, serviceConfig.retryConfig)
                   /\ last.asked # NoProvider =>
                          /\ last.error.provider = last.asked
                          /\ "not registered" \in last.error.message
                   /\ last.asked = NoProvider =>
                          "No LLM providers registered" \in last.error.message
            /\ last.outcome = "pending" =>
                   /\ last.gens = 1
                   /\ \E c \in DOMAIN calls :
                          calls[c].status = "awaiting" /\ calls[c].provider = expected

\* a call asked of openai on a registry that holds anthropic only, with
\* openai the configured default, has thrown without a generate call
C21_Witness ==
    /\ last.entered
    /\ last.asked = "openai"
    /\ providers = <<"anthropic">>
    /\ last.outcome = "threw"
    /\ last.gens = 0
    /\ last.error.provider = "openai"
    /\ "not registered" \in last.error.message

\* a call asked of no provider goes to the configured default anthropic,
\* openai being registered too
C21_WitnessConfigured ==
    /\ last.entered
    /\ last.asked = NoProvider
    /\ serviceConfig.defaultProvider = "anthropic"
    /\ providers = <<"anthropic", "openai">>
    /\ last.outcome = "pending"
    /\ last.provider = "anthropic"

\* the configured default openai is not registered: the call goes to the
\* provider registered first
C21_WitnessRegistryDefault ==
    /\ last.entered
    /\ last.asked = NoProvider
    /\ serviceConfig.defaultProvider = "openai"
    /\ providers = <<"anthropic">>
    /\ last.outcome = "pending"
    /\ last.provider = "anthropic"

\* nothing is registered: the call asked of no provider has thrown
C21_WitnessEmpty ==
    /\ last.entered
    /\ last.asked = NoProvider
    /\ providers = <<>>
    /\ last.outcome = "threw"
    /\ "No LLM providers registered" \in last.error.message

\* C23 (as stated): the request that an ask call passes to provider.generate
\* has JSON mode switched on, whatever the options of the structured request
\* contain.
C23_AsStated ==
    (last.entered /\ last.kind = "ask" /\ last.outcome = "pending")
    => last.json = "on"

\* C23, what the code does: the request of an ask call has a json flag, which
\* is the one of request.options when that sets one
C23_JsonDefaultedOn ==
    (last.entered /\ last.kind = "ask" /\ last.outcome = "pending")
    => last.json \in {"on", "off"}

\* an ask call whose request.options sets json: false has called
\* provider.generate with JSON mode switched off
C23_Witness ==
    /\ last.entered
    /\ last.kind = "ask"
    /\ last.inputValid
    /\ last.outcome = "pending"
    /\ last.gens = 1
    /\ last.json = "off"

(* -------- the budget reset (Spec) -------- *)

\* the step is the entry of a call that reaches checkTokenBudget: getProvider
\* and, for ask, the input validation have passed, and a budget is configured
SvcBudgetCheckStep ==
    /\ last'.entered
    /\ last'.provider # NoProvider
    /\ last'.kind = "ask" => last'.inputValid
    /\ tokenBudget.configured

\* C24: at each budget check, if the current time has passed resetsAt then
\* dailyUsage becomes 0, monthlyUsage becomes 0 only if the month of the
\* current time differs from the month of resetsAt, and resetsAt becomes the
\* current time plus 24 hours; if the current time has not passed resetsAt the
\* three fields are left as they were.
C24_BudgetReset ==
    [][SvcBudgetCheckStep =>
        IF clock > tokenBudget.resetsAt
        THEN /\ tokenBudget'.dailyUsage = 0
             /\ tokenBudget'.monthlyUsage =
                    (IF GetMonth(clock) = GetMonth(tokenBudget.resetsAt)
                     THEN tokenBudget.monthlyUsage ELSE 0)
             /\ tokenBudget'.resetsAt = clock + Day
        ELSE /\ tokenBudget'.dailyUsage = tokenBudget.dailyUsage
             /\ tokenBudget'.monthlyUsage = tokenBudget.monthlyUsage
             /\ tokenBudget'.resetsAt = tokenBudget.resetsAt]_vars

\* a call has entered in the new month with a budget whose resetsAt lay in the
\* old month: both usages are 0 and resetsAt is a day ahead
C24_Witness ==
    /\ last.entered
    /\ last.outcome = "pending"
    /\ tokenBudget.configured
    /\ clock = SvcStartTime + SvcTickUnits
    /\ GetMonth(clock) # GetMonth(SvcStartTime)
    /\ tokenBudget.dailyUsage = 0
    /\ tokenBudget.monthlyUsage = 0
    /\ tokenBudget.resetsAt = clock + Day

\* a call has entered within the month of a resetsAt that has passed: the
\* daily usage is 0, the monthly usage is kept, and the call is refused for it
C24_WitnessSameMonth ==
    /\ last.entered
    /\ last.outcome = "threw"
    /\ last.error = BudgetError(tokenBudget, serviceConfig.defaultProvider)
    /\ clock = SvcStartTime
    /\ tokenBudget.dailyUsage = 0
    /\ tokenBudget.monthlyUsage = tokenBudget.monthlyLimit
    /\ tokenBudget.resetsAt = clock + Day

\* a call has entered at the very instant resetsAt: the budget is unchanged,
\* and the call is refused for the daily usage not reset
C24_WitnessNotPassed ==
    /\ last.entered
    /\ last.outcome = "threw"
    /\ clock = SvcStartTime
    /\ tokenBudget.resetsAt = clock
    /\ tokenBudget.dailyUsage = tokenBudget.dailyLimit

(* -------- getCircuitBreakerState (Spec) -------- *)

\* the step is the entry of a request routed to p that passes the budget
\* check, in a service with circuit-breaker protection enabled
SvcPassesBudgetCheck(p) ==
    /\ last'.entered
    /\ last'.provider = p
    /\ last'.kind = "ask" => last'.inputValid
    /\ ~(tokenBudget'.configured /\ BudgetExhausted(tokenBudget'))
    /\ serviceConfig.enableCircuitBreaker

\* C26: getCircuitBreakerState(p) returns 'unknown' exactly when no request
\* routed to p has passed the budget check with circuit-breaker protection
\* enabled: it is 'unknown' after construction, and leaves 'unknown' exactly
\* in such a step. Otherwise it is the state of p's breaker, one of closed,
\* half-open and open, and it never returns to 'unknown': a breaker once
\* created is not removed, not by resetCircuitBreakers either.
C26_BreakerStateReported ==
    /\ \A p \in SvcProviders : GetCircuitBreakerState(circuitBreakers, p) = "unknown"
    /\ [][\A p \in SvcProviders :
            LET before == GetCircuitBreakerState(circuitBreakers, p)
                after == GetCircuitBreakerState(circuitBreakers', p)
            IN  /\ after \in {"unknown", "closed", "half-open", "open"}
                /\ before # "unknown" => after # "unknown"
                /\ before = "unknown" => (after # "unknown" <=> SvcPassesBudgetCheck(p))]_vars

\* a request routed to openai has just created its breaker, while none has
\* been created for anthropic
C26_Witness ==
    /\ last.entered
    /\ last.provider = "openai"
    /\ last.outcome = "pending"
    /\ GetCircuitBreakerState(circuitBreakers, "openai") = "closed"
    /\ GetCircuitBreakerState(circuitBreakers, "anthropic") = "unknown"

\* a request routed to a provider was refused by the budget check of a
\* service with circuit breakers: no breaker was created for it
C26_WitnessRefused ==
    /\ last.entered
    /\ serviceConfig.enableCircuitBreaker
    /\ last.provider # NoProvider
    /\ last.outcome = "threw"
    /\ last.error = BudgetError(tokenBudget, serviceConfig.defaultProvider)
    /\ GetCircuitBreakerState(circuitBreakers, last.provider) = "unknown"

\* both providers have a breaker, one reported open and one half-open or closed
C26_WitnessOpen ==
    /\ GetCircuitBreakerState(circuitBreakers, "openai") = "open"
    /\ GetCircuitBreakerState(circuitBreakers, "anthropic") \in {"closed", "half-open"}

(* -------- the timed-out attempt and the retry configuration (Spec) -------- *)

\* the step is the expiry of the timeout guard of c's attempt, in a service
\* with retry enabled, the attempt not being the last one allowed
SvcTimeoutWithAttemptsLeft(c) ==
    /\ SvcTimerStep(c)
    /\ serviceConfig.enableRetry
    /\ calls[c].retry.attempt < serviceConfig.retryConfig.maxRetries

\* C29 (as stated): with retry enabled and attempts remaining, a timed-out
\* attempt is retried, under every effective retry configuration, one that
\* overrides retryableStatuses included.
C29_AsStated ==
    [][\A c \in DOMAIN calls :
        SvcTimeoutWithAttemptsLeft(c) => calls'[c].status = "sleeping"]_vars

\* C29, what the code does: the timed-out attempt is retried when the
\* effective retryableStatuses contain 408, as the defaults do
C29_RetriedWhen408Listed ==
    [][\A c \in DOMAIN calls :
        (SvcTimeoutWithAttemptsLeft(c) /\ 408 \in serviceConfig.retryConfig.retryableStatuses)
        => calls'[c].status = "sleeping"]_vars

\* in a service whose retryableStatuses override leaves out 408, the first
\* attempt timed out and the call threw the timeout error without a retry
C29_Witness ==
    /\ serviceConfig.enableRetry
    /\ serviceConfig.retryConfig.maxRetries = DefaultMaxRetries
    /\ 408 \notin serviceConfig.retryConfig.retryableStatuses
    /\ last.outcome = "threw"
    /\ last.error = TimeoutError
    /\ last.gens = 1
    /\ last.retries = <<>>

\* under the default configuration the timed-out first attempt is followed
\* by a second one
C29_WitnessRetried ==
    /\ serviceConfig.retryConfig = DEFAULT_RETRY_CONFIG
    /\ \E c \in DOMAIN calls :
        /\ calls[c].status = "awaiting"
        /\ calls[c].gens = 2
        /\ calls[c].retry.lastError = TimeoutError

(* -------- the provider tag of the service's own errors (Spec) -------- *)

\* the call ended with a resilience error that the service constructed for a
\* request routed to a provider (the provider's own errors pass through as
\* they are)
SvcOwnErrorRaised ==
    /\ last.outcome = "threw"
    /\ last.provider # NoProvider
    /\ IsLLMError(last.error)
    /\ last.error \notin SvcGenErrors(last.provider)

\* C30 (as stated): every resilience error raised by complete/ask for a
\* request routed to provider P carries provider = P, for each kind the
\* service constructs itself: timeout, circuit-open, retries-exhausted,
\* budget-exceeded and output-parse failure.
C30_AsStated ==
    SvcOwnErrorRaised => last.error.provider = last.provider

\* C30, what the code does: the output-parse failure carries the provider the
\* request was routed to; the other kinds carry 'openai', and the
\* budget-exceeded error the configured default provider when there is one
C30_TagsOfOwnErrors ==
    SvcOwnErrorRaised =>
        last.error.provider =
            (IF Includes(last.error.message, "Failed to parse LLM output")
             THEN last.provider
             ELSE IF last.error.statusCode = 429
                     /\ serviceConfig.defaultProvider # NoProvider
             THEN serviceConfig.defaultProvider
             ELSE "openai")

\* a request routed to anthropic timed out, and the error raised is tagged
\* with openai
C30_Witness ==
    /\ last.provider = "anthropic"
    /\ last.outcome = "threw"
    /\ last.error = TimeoutError
    /\ last.error.provider = "openai"

\* a request routed to anthropic was refused by its open breaker, with an
\* error tagged openai
C30_WitnessCircuitOpen ==
    /\ last.entered
    /\ last.provider = "anthropic"
    /\ last.outcome = "threw"
    /\ last.error = CircuitOpenError
    /\ last.error.provider = "openai"

\* a request routed to anthropic ran out of retries, with an error tagged openai
C30_WitnessExhausted ==
    /\ last.provider = "anthropic"
    /\ last.outcome = "threw"
    /\ last.gens = serviceConfig.retryConfig.maxRetries + 1
    /\ Includes(last.error.message, "Failed after")
    /\ last.error.provider = "openai"

\* a request routed to anthropic was refused by the budget, with an error
\* tagged openai
C30_WitnessBudget ==
    /\ last.entered
    /\ last.provider = "anthropic"
    /\ last.outcome = "threw"
    /\ last.error = BudgetError(tokenBudget, serviceConfig.defaultProvider)
    /\ last.error.provider = "openai"

\* the output of a request routed to anthropic did not parse: the error is
\* tagged anthropic
C30_WitnessParse ==
    /\ last.provider = "anthropic"
    /\ last.outcome = "threw"
    /\ Includes(last.error.message, "Failed to parse LLM output")
    /\ last.error.provider = "anthropic"

(* -------- resetCircuitBreakers (Spec) -------- *)

\* the step is a call of resetCircuitBreakers()
SvcResetStep ==
    last'.kind = "reset"

\* C31: after resetCircuitBreakers() every breaker that exists is closed with
\* failureCount 0, whatever its state was, so that the next call to its
\* provider is not refused by it; a provider that had no breaker still
\* reports 'unknown'; the token budget is as it was.
C31_ResetClosesAll ==
    [][SvcResetStep =>
        /\ \A p \in SvcProviders :
            IF GetCircuitBreakerState(circuitBreakers, p) = "unknown"
            THEN GetCircuitBreakerState(circuitBreakers', p) = "unknown"
            ELSE /\ circuitBreakers'[p].state = "closed"
                 /\ circuitBreakers'[p].failureCount = 0
                 /\ ~BreakerRefuses(circuitBreakers'[p], clock', ServiceBreakerConfig)
        /\ tokenBudget' = tokenBudget]_vars

\* resetCircuitBreakers() was called while openai's breaker was open, with no
\* breaker for anthropic and a budget configured: openai's is closed with no
\* failure counted
C31_Witness ==
    /\ last.kind = "reset"
    /\ "openai" \in last.wasOpen
    /\ circuitBreakers["openai"].state = "closed"
    /\ circuitBreakers["openai"].failureCount = 0
    /\ GetCircuitBreakerState(circuitBreakers, "anthropic") = "unknown"
    /\ tokenBudget.configured

\* resetCircuitBreakers() was called while a call admitted by the breaker
\* reset was still in flight
C31_WitnessInFlight ==
    /\ last.kind = "reset"
    /\ last.wasOpen # {}
    /\ \E c \in DOMAIN calls : calls[c].status \in {"awaiting", "settling"}

(* -------- one breaker per provider (Spec) -------- *)

\* the step belongs to a call routed to provider a: the call enters in the
\* step, or it is in flight and the step moves it on
SvcStepOfCallTo(a) ==
    \/ last'.entered /\ last'.provider = a
    \/ \E c \in DOMAIN calls :
        /\ calls[c].status # "idle"
        /\ calls'[c] # calls[c]
        /\ calls[c].provider = a

C32_WitnessAdmitted ==
    /\ last.entered
    /\ last.provider = "anthropic"
    /\ last.outcome = "pending"
    /\ circuitBreakers["openai"].state = "open"
    /\ BreakerRefuses(circuitBreakers["openai"], clock, ServiceBreakerConfig)

(* -------- the failure count of a breaker that admits (SpecCB) -------- *)

\* C33: in every reachable state of a breaker with failureThreshold >= 1,
\* under any interleaving of execute calls and reset, a breaker that is
\* closed or half-open has failureCount < failureThreshold.
C33_CountBelowThreshold ==
    (cbConfig.failureThreshold >= 1 /\ cb.state \in {"closed", "half-open"})
    => cb.failureCount < cbConfig.failureThreshold

\* a half-open breaker one failure short of its threshold of 3, used by calls
\* that overlapped
C33_Witness ==
    /\ cbConfig.failureThreshold = CbMaxThreshold
    /\ cb.state = "half-open"
    /\ cb.failureCount = cbConfig.failureThreshold - 1
    /\ cbHist.overlap

\* an open breaker that counts more failures than its threshold: calls
\* admitted before it opened failed after
C33_WitnessOpenAbove ==
    /\ cb.state = "open"
    /\ cb.failureCount > cbConfig.failureThreshold

(* -------- the refused call (SpecCB) -------- *)

\* c's execute() call is refused in this step: the breaker is open after
\* checkState(), and fn is not called
CbRefused(c) ==
    /\ cbCalls[c].status = "idle"
    /\ cbClock' = cbClock
    /\ cbHist'.last[1] = "refused"
    /\ cbCalls'[c].outcome = "refused"
    /\ \A d \in CbCallers \ {c} : cbCalls[d].status = "idle" => cbCalls'[d] = cbCalls[d]

\* C34: an execute call refused because the breaker is open leaves
\* failureCount, lastFailureTime and state as they were; the moment at which
\* the breaker may move to half-open, lastFailureTime + resetTimeoutMs, is
\* therefore not put off by refused calls.
C34_RefusalLeavesBreaker ==
    [][\A c \in CbCallers :
        CbRefused(c) =>
            /\ cb'.failureCount = cb.failureCount
            /\ cb'.lastFailureTime = cb.lastFailureTime
            /\ cb'.state = cb.state]_vars

\* a call has been refused some time after the failure that opened the
\* breaker: the breaker still holds the time of that failure
C34_Witness ==
    /\ cbHist.last = <<"refused", "open">>
    /\ cb.state = "open"
    /\ cb.failureCount = cbConfig.failureThreshold
    /\ cbClock = cb.lastFailureTime + CbTickMs
    /\ cbClock < cb.lastFailureTime + cbConfig.resetTimeoutMs
    /\ \E c \in CbCallers : cbCalls[c].outcome = "refused"

(* -------- leaving the open state (SpecCB) -------- *)

\* c's fn() settles in this step, with a success or with a failure
CbSettled(c) ==
    /\ cbCalls[c].status = "running"
    /\ cbCalls'[c].status = "idle"

\* C35: the breaker leaves the open state only by the timed move to
\* half-open made at the start of an execute call, or by reset(). The
\* settlement, success or failure, of a call that was admitted before the
\* breaker opened and finishes while it is open leaves it open.
C35_OpenLeftByTimerOrReset ==
    [][cb.state = "open" =>
        /\ \A c \in CbCallers : CbSettled(c) => cb'.state = "open"
        /\ cb'.state # "open" =>
            \/ cb' = BreakerClosed /\ cbHist'.last = <<"reset", "open">>
            \/ /\ cb'.state = "half-open"
               /\ cbClock - cb.lastFailureTime >= cbConfig.resetTimeoutMs
               /\ \E c \in CbCallers : CbCalled(c) /\ cbCalls'[c].status = "running"]_vars

\* a call admitted before the breaker opened has succeeded while it was open:
\* the breaker is still open, its failure count cleared
C35_Witness ==
    /\ cbHist.last = <<"success", "open">>
    /\ cb.state = "open"
    /\ cb.failureCount = 0
    /\ cbHist.overlap

\* a call admitted before the breaker opened has failed while it was open
C35_WitnessFailure ==
    /\ cbHist.last = <<"failure", "open">>
    /\ cb.state = "open"
    /\ cb.failureCount = cbConfig.failureThreshold + 1

(* -------- the budget at the start of each attempt (Spec) -------- *)

\* a provider.generate() call of c begins in this step: the first attempt of
\* a call that enters, or the attempt that follows a backoff sleep
SvcGenerateBegins(c) ==
    calls'[c].gens = calls[c].gens + 1

\* the budget is configured and below both limits
BudgetBelowLimits(budget) ==
    /\ budget.configured
    /\ budget.dailyUsage < budget.dailyLimit
    /\ budget.monthlyUsage < budget.monthlyLimit

\* C36 (as stated): with a token budget configured, every provider.generate
\* invocation, retry attempts included, under any interleaving of concurrent
\* calls, begins in a state where dailyUsage < dailyLimit and
\* monthlyUsage < monthlyLimit.
C36_AsStated ==
    [][\A c \in DOMAIN calls :
        (tokenBudget.configured /\ SvcGenerateBegins(c))
        => BudgetBelowLimits(tokenBudget')]_vars

\* C36, what the code does: the first attempt of a call begins below both
\* limits, the budget being checked when the call enters and not again
C36_FirstAttemptBelowLimits ==
    [][\A c \in DOMAIN calls :
        (tokenBudget.configured /\ SvcGenerateBegins(c) /\ calls[c].status = "idle")
        => BudgetBelowLimits(tokenBudget')]_vars

\* a call's second attempt has just begun, after the backoff sleep during
\* which another call's response used the daily budget up
C36_Witness ==
    /\ last = SvcNoLast
    /\ clock = SvcStartTime
    /\ tokenBudget.configured
    /\ tokenBudget.dailyUsage >= tokenBudget.dailyLimit
    /\ \E c \in DOMAIN calls :
        /\ calls[c].status = "awaiting"
        /\ calls[c].gens = 2
        /\ calls[c].abandoned = 0
        /\ \A d \in DOMAIN calls \ {c} : calls[d].status = "idle"

(* -------- the monthly usage across a month boundary (Spec) -------- *)

\* a call has just entered and reached checkTokenBudget, which compared the
\* budget as it now is with the limits
SvcBudgetChecked ==
    /\ last.entered
    /\ last.provider # NoProvider
    /\ last.kind = "ask" => last.inputValid
    /\ tokenBudget.configured

\* C37 (as stated): whenever a budget check is performed in calendar month M,
\* the monthlyUsage compared against monthlyLimit is the sum of the tokens
\* used during month M only, for any placement of resetsAt relative to the
\* month boundary.
C37_AsStated ==
    SvcBudgetChecked => tokenBudget.monthlyUsage = ledger.month

\* C37, what the code does: within the month the budget was configured in,
\* the monthly usage checked is the usage of that month
C37_HoldsUntilMonthEnds ==
    (SvcBudgetChecked /\ GetMonth(clock) = GetMonth(SvcStartTime))
    => tokenBudget.monthlyUsage = ledger.month

\* a call made in the new month, with no token used in it, has been refused
\* for the monthly usage of the month before: resetsAt, a day after the last
\* daily reset, lay beyond the month boundary
C37_Witness ==
    /\ SvcBudgetChecked
    /\ GetMonth(clock) # GetMonth(SvcStartTime)
    /\ ledger.month = 0
    /\ clock < tokenBudget.resetsAt
    /\ tokenBudget.monthlyUsage = tokenBudget.monthlyLimit
    /\ last.outcome = "threw"
    /\ Includes(last.error.message, "Monthly token budget exceeded")

\* a call made in the new month past a resetsAt of the old month: the monthly
\* usage checked is 0
C37_WitnessCleared ==
    /\ SvcBudgetChecked
    /\ GetMonth(clock) # GetMonth(SvcStartTime)
    /\ ledger.month = 0
    /\ tokenBudget.monthlyUsage = 0
    /\ last.outcome = "pending"

====
